---- MODULE Spec2Model ----
(***************************************************************************)
(* A model of ld-relay's RelayCore (environment index and lifecycle,       *)
(* initialization wait) as found in src/internal/events/event-relay.go.    *)
(*                                                                         *)
(* Every critical section of RelayCore.lock is one atomic action; the code *)
(* that a method runs after releasing the lock is a separate action, so    *)
(* that concurrent callers interleave exactly where the code lets them.    *)
(***************************************************************************)
EXTENDS Integers, Sequences, FiniteSets, TLC

(***************************************************************************)
(* Bounds of the model.                                                    *)
(***************************************************************************)
\* EnvContexts ever constructed in one behaviour
MaxEnvs == 2
\* entries of the initial configuration's Environment map
MaxInitEnvs == 2
\* WaitForAllClients calls in one behaviour
MaxWaits == 2

(***************************************************************************)
(* Values.                                                                 *)
(***************************************************************************)
\* the nil EnvContext; EnvContexts are numbered from 1 in order of construction
Nil == 0

Procs == {"p1", "p2"}

SDKKeys == {"k1", "k2"}

\* "" is the absent mobile key / environment ID
MobileKeys == {"", "m1"}

EnvIDs == {"", "i1"}

\* The EnvConfig values callers pass. Nothing in RelayCore restricts them:
\* two configurations may carry the same SDK key, mobile key or environment ID.
EnvConfigs ==
    { [SDKKey |-> "k1", MobileKey |-> "m1", EnvID |-> "i1"],
      [SDKKey |-> "k2", MobileKey |-> "m1", EnvID |-> ""],
      [SDKKey |-> "k1", MobileKey |-> "", EnvID |-> "i1"] }

\* a nil *EnvConfig entry of the configuration's Environment map
NilConfig == [SDKKey |-> "", MobileKey |-> "", EnvID |-> ""]

\* config.SDKCredential: an SDK key, a mobile key, an environment ID, or some
\* other implementation of the interface
Credentials ==
    [kind : {"SDKKey"}, key : SDKKeys]
        \cup [kind : {"MobileKey"}, key : MobileKeys]
        \cup [kind : {"EnvironmentID"}, key : EnvIDs]
        \cup [kind : {"other"}, key : {""}]

VARIABLES
    phase,             \* "configuring" | "running" | "failed" (NewRelayCore)
    envs,              \* EnvContexts constructed so far: Seq of EnvConfig
    closeCalls,        \* per EnvContext: number of Close() calls received
    allEnvironments,   \* RelayCore.allEnvironments
    envsByMobileKey,   \* RelayCore.envsByMobileKey
    envsByEnvID,       \* RelayCore.envsByEnvID
    closed,            \* RelayCore.closed
    metricsCloseCalls, \* number of metricsManager.Close() calls
    providerCloseCalls,\* number of Close() calls on each of the four providers
    cleanupLog,        \* what NewRelayCore's cleanup tasks closed, in order
    pc,                \* per caller: where it is inside a RelayCore method
    loc,               \* per caller: the method's local variables
    ret,               \* what the call that returned last returned
    initState,         \* per EnvContext: "pending", or how its client init ended
    resultCh,          \* per EnvContext: what its result channel (capacity 1) holds
    fwd,               \* per EnvContext: its forwarding goroutine of NewRelayCore
    clientInitCh,      \* RelayCore.clientInitCh: the EnvContexts buffered in it
    clientInitCap,     \* capacity of clientInitCh
    waiters,           \* the goroutines WaitForAllClients calls have started
    removed,           \* history: EnvContexts RemoveEnvironment took out
    closers            \* history: Close calls that did the closing work

coreVars ==
    << phase, envs, closeCalls, allEnvironments, envsByMobileKey, envsByEnvID,
       closed, metricsCloseCalls, providerCloseCalls, cleanupLog >>

histVars == << removed, closers >>

envVars == << initState, resultCh, fwd >>

waitVars == << envVars, clientInitCh, clientInitCap, waiters >>

VARIABLES
    evConfig,          \* the events Config of the endpoint dispatcher, once created
    requests,          \* per HTTP request: its input, its response, its worker
    verbatimRelay,     \* eventEndpointDispatcher.verbatimRelay (Nil until built)
    summarizingRelay,  \* eventEndpointDispatcher.summarizingRelay (Nil until built)
    relaysBuilt,       \* number of newEventVerbatimRelay / newEventSummarizingRelay calls
    mu,                \* eventEndpointDispatcher.mu: the request whose worker holds it
    verbatimIn,        \* the calls of eventVerbatimRelay.enqueue, in order
    summarizingIn,     \* the calls of eventSummarizingRelay.enqueue, in order
    published,         \* the calls of the verbatim publisher's PublishRaw, in order
    acquired,          \* history: what NewRelayCore constructed, in order
    mgr,               \* metrics.Manager: "none" | "open" | "closed"
    mgrScopes,         \* the environment scopes the Manager has created: Seq of names
    mgrEnvironments,   \* Manager.environments: the scopes registered now
    mgrRet,            \* what the last Manager.AddEnvironment call returned
    gauge,             \* per scope: the connection gauge in the two views
    gaugeCalls,        \* per caller of WithGauge: where it is, and on which scope
    streamUpdates,     \* per environment: number of updates its upstream stream brought
    subscribers,       \* per subscriber of a StreamProvider: its stream
    streamClosed,      \* per environment: its EnvContext has been closed
    lock               \* RelayCore.lock: the writer holding it, the readers holding it

eventVars ==
    << evConfig, requests, verbatimRelay, summarizingRelay, relaysBuilt, mu,
       verbatimIn, summarizingIn, published >>

metricVars == << mgr, mgrScopes, mgrEnvironments, mgrRet, gauge, gaugeCalls >>

streamVars == << streamUpdates, subscribers, streamClosed >>

otherVars == << eventVars, acquired, metricVars, streamVars, lock >>

vars == << coreVars, waitVars, pc, loc, ret, histVars, otherVars >>


(***************************************************************************)
(* Pure parts of the code.                                                 *)
(***************************************************************************)
NoRet == [op |-> "none", err |-> "", val |-> "", env |-> Nil]

EmptyMap(keys) == [k \in keys |-> Nil]

NoCredential == [kind |-> "none", key |-> ""]

NoLoc ==
    [sdkKey |-> "", env |-> Nil, envs |-> EmptyMap(SDKKeys), todo |-> {}, w |-> 0,
     timeout |-> 0, timer |-> "none", credential |-> NoCredential,
     envConfig |-> NilConfig]

\* sync.RWMutex: one writer, or any number of readers
NoWriter == "none"

Unheld == [writer |-> NoWriter, readers |-> {}]

\* the three index maps, as one value. A nil map and an empty map read alike
\* (every lookup gives nil, delete does nothing, range visits nothing), and the
\* code writes to the maps only while closed is false, when they are not nil.
Index == [all |-> allEnvironments, mob |-> envsByMobileKey, id |-> envsByEnvID]

\* GetEnvironment: the lookup under the read lock
Lookup(idx, credential) ==
    CASE credential.kind = "SDKKey" -> idx.all[credential.key]
      [] credential.kind = "MobileKey" -> idx.mob[credential.key]
      [] credential.kind = "EnvironmentID" -> idx.id[credential.key]
      [] OTHER -> Nil

GetEnvironment(credential) == Lookup(Index, credential)

\* AddEnvironment, after NewEnvContext succeeded: the three map writes
InsertEnvironment(idx, envConfig, clientContext) ==
    [all |-> [idx.all EXCEPT ![envConfig.SDKKey] = clientContext],
     mob |-> IF envConfig.MobileKey # ""
             THEN [idx.mob EXCEPT ![envConfig.MobileKey] = clientContext]
             ELSE idx.mob,
     id |-> IF envConfig.EnvID # ""
            THEN [idx.id EXCEPT ![envConfig.EnvID] = clientContext]
            ELSE idx.id]

\* RemoveEnvironment with a forgotten delete: the mobile-key entry stays
DeleteEnvironmentKeepsMobileKey(idx, sdkKey, creds) ==
    [all |-> [idx.all EXCEPT ![sdkKey] = Nil],
     mob |-> idx.mob,
     id |-> [idx.id EXCEPT ![creds.EnvID] = Nil]]

\* RemoveEnvironment with a forgotten delete: the SDK-key entry stays
DeleteEnvironmentKeepsSDKKey(idx, sdkKey, creds) ==
    [all |-> idx.all,
     mob |-> [idx.mob EXCEPT ![creds.MobileKey] = Nil],
     id |-> [idx.id EXCEPT ![creds.EnvID] = Nil]]

\* RemoveEnvironment, env # nil: the three deletes. creds is
\* env.GetCredentials(), the credentials the EnvContext was built with.
DeleteEnvironment(idx, sdkKey, creds) ==
    [all |-> [idx.all EXCEPT ![sdkKey] = Nil],
     mob |-> [idx.mob EXCEPT ![creds.MobileKey] = Nil],
     id |-> [idx.id EXCEPT ![creds.EnvID] = Nil]]

\* Close: the three maps set to nil
NilIndex ==
    [all |-> EmptyMap(SDKKeys), mob |-> EmptyMap(MobileKeys), id |-> EmptyMap(EnvIDs)]

\* the credentials an EnvConfig carries (absent ones left out)
CredentialsOf(envConfig) ==
    { [kind |-> "SDKKey", key |-> envConfig.SDKKey] }
        \cup (IF envConfig.MobileKey # ""
              THEN { [kind |-> "MobileKey", key |-> envConfig.MobileKey] } ELSE {})
        \cup (IF envConfig.EnvID # ""
              THEN { [kind |-> "EnvironmentID", key |-> envConfig.EnvID] } ELSE {})

RealCredentials == UNION { CredentialsOf(c) : c \in EnvConfigs }

SetIndex(idx) ==
    /\ allEnvironments' = idx.all
    /\ envsByMobileKey' = idx.mob
    /\ envsByEnvID' = idx.id

UnchangedIndex == UNCHANGED << allEnvironments, envsByMobileKey, envsByEnvID >>

(***************************************************************************)
(* Init: before NewRelayCore has run.                                      *)
(***************************************************************************)
(***************************************************************************)
(* The events endpoint dispatcher: values and pure parts.                  *)
(***************************************************************************)
\* the HTTP requests one eventEndpointDispatcher serves
Requests == {"r1", "r2"}

\* the largest int of strconv.Atoi (a 32-bit int)
MaxInt == 2147483647

MinInt == 0 - MaxInt - 1

SummaryEventsSchemaVersion == 3

\* JSON texts as sequences of tokens; "a" and "b" stand for two JSON objects
Records == {"a", "b"}

Bodies ==
    { << >>,
      << "{", "}" >>,
      << "[", "b", "]" >>,
      << "[", "a", ",", "b", "]" >> }

\* values of the X-LaunchDarkly-Event-Schema header as sequences of characters;
\* << >> is what Header.Get returns for an absent header
Headers ==
    { << >>, << "3" >>, << "2" >>, << "0" >>, << "x" >>, << "-", "1" >>,
      << "9", "9", "9", "9", "9", "9", "9", "9", "9", "9" >> }

\* what a request brings: whether reading its body fails, the body, the header
RequestInputs ==
    { [readErr |-> TRUE, body |-> << >>, header |-> << >>],
      [readErr |-> FALSE, body |-> << >>, header |-> << >>] }
        \cup [readErr : {FALSE}, body : Bodies \ {<< >>}, header : Headers]

\* events.Config, the two fields the verbatim relay reads
EventConfigs ==
    { [SendEvents |-> TRUE, SamplingInterval |-> 0],
      [SendEvents |-> TRUE, SamplingInterval |-> -1],
      [SendEvents |-> TRUE, SamplingInterval |-> 2],
      [SendEvents |-> FALSE, SamplingInterval |-> 0] }

NoEventConfig == [SendEvents |-> FALSE, SamplingInterval |-> -1]

NoInput == [readErr |-> FALSE, body |-> << "none" >>, header |-> << >>]

\* no rGen.Int31n call was made
NoDraw == -1

NoRequest ==
    [input |-> NoInput, status |-> 0, message |-> "", handler |-> "idle",
     worker |-> "none", evts |-> << >>, payloadVersion |-> 0, log |-> << >>,
     build |-> FALSE, relay |-> Nil, draw |-> NoDraw, raced |-> FALSE]

\* sync.Mutex, unheld
NoHolder == "none"

\* json.Unmarshal(body, &evts) for evts []json.RawMessage: the text must be one
\* JSON array (or null, which leaves no records); the records are its elements,
\* in the order of the text
UnmarshalElements(inner) == [i \in 1..((Len(inner) + 1) \div 2) |-> inner[2 * i - 1]]

Unmarshal(body) ==
    LET inner == SubSeq(body, 2, Len(body) - 1) IN
    IF body = << "null" >> THEN [err |-> FALSE, evts |-> << >>]
    ELSE IF /\ Len(body) >= 2
            /\ body[1] = "[" /\ body[Len(body)] = "]"
            /\ \/ inner = << >>
               \/ /\ Len(inner) % 2 = 1
                  /\ \A i \in 1..Len(inner) :
                         IF i % 2 = 1 THEN inner[i] \in Records ELSE inner[i] = ","
         THEN [err |-> FALSE, evts |-> UnmarshalElements(inner)]
         ELSE [err |-> TRUE, evts |-> << >>]

DigitChars == {"0", "1", "2", "3", "4", "5", "6", "7", "8", "9"}

DigitValue(ch) ==
    CASE ch = "0" -> 0 [] ch = "1" -> 1 [] ch = "2" -> 2 [] ch = "3" -> 3
      [] ch = "4" -> 4 [] ch = "5" -> 5 [] ch = "6" -> 6 [] ch = "7" -> 7
      [] ch = "8" -> 8 [] ch = "9" -> 9

\* the least n for which n * 10 - d is still an int, negated
NegativeCutoff(d) == IF d = 0 THEN MaxInt \div 10 ELSE (MaxInt - d + 1) \div 10

\* strconv's digit loop: the value of the digits, accumulated below zero for
\* a negative number; out of the int range it is a range error whose value is
\* the nearest int
RECURSIVE ParseDigits(_, _, _)
ParseDigits(digits, n, neg) ==
    IF digits = << >> THEN [val |-> n, err |-> "nil"]
    ELSE LET d == DigitValue(Head(digits)) IN
         IF neg
         THEN IF n < 0 - NegativeCutoff(d) THEN [val |-> MinInt, err |-> "range"]
              ELSE ParseDigits(Tail(digits), n * 10 - d, neg)
         ELSE IF n > (MaxInt - d) \div 10 THEN [val |-> MaxInt, err |-> "range"]
              ELSE ParseDigits(Tail(digits), n * 10 + d, neg)

\* strconv.Atoi: the value and the error it returns. The value is 0 with a
\* syntax error.
AtoiResult(s) ==
    IF s = << >> THEN [val |-> 0, err |-> "syntax"]
    ELSE LET signed == Head(s) \in {"-", "+"}
             digits == IF signed THEN Tail(s) ELSE s
         IN  IF digits = << >> \/ \E i \in 1..Len(digits) : digits[i] \notin DigitChars
             THEN [val |-> 0, err |-> "syntax"]
             ELSE ParseDigits(digits, 0, Head(s) = "-")

\* payloadVersion, _ := strconv.Atoi(...): the error is dropped
Atoi(s) == AtoiResult(s).val

\* payloadVersion, _ := strconv.Atoi(req.Header.Get(EventSchemaHeader))
\* if payloadVersion == 0 { payloadVersion = 1 }
PayloadVersion(header) == IF Atoi(header) = 0 THEN 1 ELSE Atoi(header)

InitEvents ==
    /\ evConfig = NoEventConfig
    /\ requests = [r \in Requests |-> NoRequest]
    /\ verbatimRelay = Nil
    /\ summarizingRelay = Nil
    /\ relaysBuilt = [verbatim |-> 0, summarizing |-> 0]
    /\ mu = NoHolder
    /\ verbatimIn = << >>
    /\ summarizingIn = << >>
    /\ published = << >>

(***************************************************************************)
(* The metrics Manager: values.                                            *)
(***************************************************************************)
MaxScopes == 2

MetricEnvNames == {"n1", "n2"}

GaugeCallers == {"g1", "g2"}

NoGaugeCall == [state |-> "idle", scope |-> Nil]

NoMgrRet == [err |-> "", env |-> Nil]

InitMetrics ==
    /\ mgr = "none"
    /\ mgrScopes = << >>
    /\ mgrEnvironments = {}
    /\ mgrRet = NoMgrRet
    /\ gauge = [scope \in 1..MaxScopes |-> [public |-> 0, private |-> 0]]
    /\ gaugeCalls = [g \in GaugeCallers |-> NoGaugeCall]

(***************************************************************************)
(* A StreamProvider: values.                                               *)
(***************************************************************************)
\* updates per environment
MaxUpdates == 3

\* a subscriber's outbound buffer
BufferSize == 2

StreamEnvs == {"e1", "e2"}

Subscribers == {"s1", "s2"}

NoSubscriber ==
    [state |-> "none", env |-> "", from |-> 0, buffer |-> << >>, observed |-> << >>]

InitStreams ==
    /\ streamUpdates = [env \in StreamEnvs |-> 0]
    /\ subscribers = [sub \in Subscribers |-> NoSubscriber]
    /\ streamClosed = [env \in StreamEnvs |-> FALSE]

Init ==
    /\ InitEvents
    /\ InitMetrics
    /\ InitStreams
    /\ acquired = << >>
    /\ lock = Unheld
    /\ phase = "configuring"
    /\ envs = << >>
    /\ closeCalls = << >>
    /\ allEnvironments = EmptyMap(SDKKeys)
    /\ envsByMobileKey = EmptyMap(MobileKeys)
    /\ envsByEnvID = EmptyMap(EnvIDs)
    /\ closed = FALSE
    /\ metricsCloseCalls = 0
    /\ providerCloseCalls = 0
    /\ cleanupLog = << >>
    /\ pc = [p \in Procs |-> "idle"]
    /\ loc = [p \in Procs |-> NoLoc]
    /\ ret = NoRet
    /\ removed = {}
    /\ closers = 0
    /\ initState = << >>
    /\ resultCh = << >>
    /\ fwd = << >>
    /\ clientInitCh = << >>
    /\ clientInitCap = 0
    /\ waiters = << >>

(***************************************************************************)
(* NewRelayCore. It runs before the RelayCore is shared, so it is one      *)
(* action. c is the configuration's Environment map in the order the range *)
(* loop visits it; outcome says which of the calls it makes fails.         *)
(***************************************************************************)
InitConfigs ==
    UNION { [1..n -> EnvConfigs \cup {NilConfig}] : n \in 0..MaxInitEnvs }

\* the range loop over c.Environment: st.added lists the EnvContexts added so
\* far, st.err is the error of the AddEnvironment call that failed, if any
RECURSIVE AddInitialEnvironments(_, _, _, _)
AddInitialEnvironments(c, i, failAt, st) ==
    IF i > Len(c) \/ st.err # "nil" THEN st
    ELSE IF c[i] = NilConfig THEN AddInitialEnvironments(c, i + 1, failAt, st)
    ELSE IF i = failAt
         THEN [st EXCEPT !.err = "errNewClientContextFailed"]
    ELSE LET env == Len(st.envs) + 1 IN
         AddInitialEnvironments(c, i + 1, failAt,
             [envs |-> Append(st.envs, c[i]),
              idx |-> InsertEnvironment(st.idx, c[i], env),
              added |-> Append(st.added, env),
              err |-> "nil"])

\* util.CleanupTasks.Run: the registered tasks, last registered first
RECURSIVE CleanupRun(_)
CleanupRun(tasks) ==
    IF tasks = << >> THEN << >>
    ELSE << tasks[Len(tasks)] >> \o CleanupRun(SubSeq(tasks, 1, Len(tasks) - 1))

MetricsTask == [kind |-> "metrics", env |-> Nil]

\* the four stream providers the RelayCore literal constructs
ProvidersTask == [kind |-> "providers", env |-> Nil]

EnvTask(env) == [kind |-> "env", env |-> env]

\* clientInitCh made without a buffer
ClientInitChUnbuffered(c) == 0

\* clientInitCh := make(chan relayenv.EnvContext, len(c.Environment)): the nil
\* entries of the configuration count
ClientInitChCapacity(c) == Len(c)

NewRelayCore(c, outcome, failAt) ==
    /\ phase = "configuring"
    /\ UNCHANGED << eventVars, metricVars, streamVars, lock >>
    /\ outcome = "errAddEnvironment" <=> failAt # 0
    /\ failAt # 0 => c[failAt] # NilConfig
    /\ UNCHANGED << closed, providerCloseCalls, pc, loc, ret, histVars, clientInitCh,
                    waiters >>
    /\ IF outcome = "errValidateConfig" \/ Len(c) = 0
            \/ outcome = "errNewMetricsManagerFailed"
       THEN \* nothing was registered with thingsToCleanUp
            /\ phase' = "failed"
            /\ acquired' = << >>
            /\ UNCHANGED << envs, closeCalls, metricsCloseCalls, cleanupLog, envVars,
                            clientInitCap >>
            /\ UnchangedIndex
       ELSE LET st == AddInitialEnvironments(c, 1, failAt,
                          [envs |-> << >>, idx |-> Index, added |-> << >>,
                           err |-> "nil"])
                tasks == << MetricsTask >> \o [i \in 1..Len(st.added) |-> EnvTask(st.added[i])]
                ran == IF st.err = "nil" THEN << >> ELSE CleanupRun(tasks)
            IN  /\ phase' = IF st.err = "nil" THEN "running" ELSE "failed"
                /\ envs' = st.envs
                /\ initState' = [e \in 1..Len(st.envs) |-> "pending"]
                /\ resultCh' = [e \in 1..Len(st.envs) |-> 0]
                /\ fwd' = [e \in 1..Len(st.envs) |-> "recv"]
                /\ clientInitCap' = ClientInitChCapacity(c)
                /\ SetIndex(st.idx)
                /\ cleanupLog' = ran
                /\ acquired' = << MetricsTask, ProvidersTask >>
                                   \o [i \in 1..Len(st.added) |-> EnvTask(st.added[i])]
                /\ closeCalls' =
                       [e \in 1..Len(st.envs) |->
                           Cardinality({ i \in 1..Len(ran) : ran[i] = EnvTask(e) })]
                /\ metricsCloseCalls' =
                       Cardinality({ i \in 1..Len(ran) : ran[i] = MetricsTask })

(***************************************************************************)
(* AddEnvironment: the whole body runs under the write lock.               *)
(* outcome: "ok", or which of ConfigureDataStore / NewEnvContext fails.    *)
(***************************************************************************)
\* AddEnvironment without the closed check
AddRejectedNever == FALSE

\* AddEnvironment: if r.closed { return nil, nil, errAlreadyClosed }
AddRejected == closed

AddEnvironment(p, envConfig, outcome) ==
    /\ phase = "running"
    /\ UNCHANGED otherVars
    /\ pc[p] = "idle"
    /\ UNCHANGED << phase, closed, metricsCloseCalls, providerCloseCalls,
                    cleanupLog, pc, loc, removed, closers, clientInitCh, clientInitCap,
                    waiters >>
    /\ IF AddRejected
       THEN /\ ret' = [op |-> "add", err |-> "errAlreadyClosed",
                                         val |-> "nil", env |-> Nil]
            /\ UNCHANGED << envs, closeCalls, envVars >>
            /\ UnchangedIndex
       ELSE IF outcome # "ok"
       THEN /\ ret' = [op |-> "add", err |-> outcome,
                                         val |-> "nil", env |-> Nil]
            /\ UNCHANGED << envs, closeCalls, envVars >>
            /\ UnchangedIndex
       ELSE /\ Len(envs) < MaxEnvs
            /\ LET clientContext == Len(envs) + 1 IN
                /\ envs' = Append(envs, envConfig)
                /\ closeCalls' = Append(closeCalls, 0)
                /\ initState' = Append(initState, "pending")
                /\ resultCh' = Append(resultCh, 0)
                /\ fwd' = Append(fwd, "none")
                /\ SetIndex(InsertEnvironment(Index, envConfig, clientContext))
                /\ ret' = [op |-> "add", err |-> "nil",
                                             val |-> "resultCh", env |-> clientContext]

(***************************************************************************)
(* RemoveEnvironment: the critical section, then the code after Unlock.    *)
(***************************************************************************)
RemoveEnvironmentLocked(p, sdkKey) ==
    /\ phase = "running"
    /\ UNCHANGED otherVars
    /\ pc[p] = "idle"
    /\ LET env == allEnvironments[sdkKey] IN
        /\ IF env # Nil
           THEN /\ SetIndex(DeleteEnvironment(Index, sdkKey, envs[env]))
                /\ removed' = removed \cup {env}
           ELSE /\ UnchangedIndex
                /\ UNCHANGED removed
        /\ loc' = [loc EXCEPT ![p] = [NoLoc EXCEPT !.sdkKey = sdkKey, !.env = env]]
    /\ pc' = [pc EXCEPT ![p] = "rm_unlocked"]
    /\ UNCHANGED << phase, envs, closeCalls, closed, metricsCloseCalls,
                    providerCloseCalls, cleanupLog, ret, closers, waitVars >>

\* RemoveEnvironment that closes whatever it looked up and reports success
RemoveClosesAlways(env) == TRUE

\* RemoveEnvironment: if env == nil { return false }
RemoveCloses(env) == env # Nil

RemoveEnvironmentUnlocked(p) ==
    /\ pc[p] = "rm_unlocked"
    /\ UNCHANGED otherVars
    /\ LET env == loc[p].env IN
        IF RemoveCloses(env)
        THEN /\ closeCalls' = [e \in 1..Len(envs) |->
                                  IF e = env THEN closeCalls[e] + 1 ELSE closeCalls[e]]
             /\ ret' = [op |-> "remove", err |-> "nil",
                                          val |-> "true", env |-> env]
        ELSE /\ UNCHANGED closeCalls
             /\ ret' = [op |-> "remove", err |-> "nil",
                                          val |-> "false", env |-> Nil]
    /\ pc' = [pc EXCEPT ![p] = "idle"]
    /\ loc' = [loc EXCEPT ![p] = NoLoc]
    /\ UnchangedIndex
    /\ UNCHANGED << phase, envs, closed, metricsCloseCalls, providerCloseCalls,
                    cleanupLog, histVars, waitVars >>

(***************************************************************************)
(* Close: the critical section, then metricsManager.Close, then Close on   *)
(* every value of the saved map (in any order), then the stream providers. *)
(***************************************************************************)
\* Close without the closed check
CloseReturnsEarlyNever == FALSE

\* Close: if r.closed { r.lock.Unlock(); return }
CloseReturnsEarly == closed

\* Close that leaves the index maps as they are
KeepIndex == Index

\* Close: the maps after r.allEnvironments = nil, r.envsByMobileKey = nil,
\* r.envsByEnvID = nil
IndexAfterClose == NilIndex

CloseLocked(p) ==
    /\ phase = "running"
    /\ UNCHANGED otherVars
    /\ pc[p] = "idle"
    /\ IF CloseReturnsEarly
       THEN /\ ret' = [op |-> "close", err |-> "nil",
                                         val |-> "already closed", env |-> Nil]
            /\ UnchangedIndex
            /\ UNCHANGED << closed, pc, loc, closers >>
       ELSE /\ closed' = TRUE
            /\ loc' = [loc EXCEPT ![p] =
                          [NoLoc EXCEPT !.envs = allEnvironments,
                                        !.todo = { k \in SDKKeys : allEnvironments[k] # Nil }]]
            /\ SetIndex(IndexAfterClose)
            /\ pc' = [pc EXCEPT ![p] = "cl_metrics"]
            /\ closers' = closers + 1
            /\ UNCHANGED ret
    /\ UNCHANGED << phase, envs, closeCalls, metricsCloseCalls, providerCloseCalls,
                    cleanupLog, removed, waitVars >>

CloseMetrics(p) ==
    /\ pc[p] = "cl_metrics"
    /\ UNCHANGED otherVars
    /\ metricsCloseCalls' = metricsCloseCalls + 1
    /\ pc' = [pc EXCEPT ![p] = "cl_envs"]
    /\ UnchangedIndex
    /\ UNCHANGED << phase, envs, closeCalls, closed, providerCloseCalls, cleanupLog,
                    loc, ret, histVars, waitVars >>

\* one iteration of: for _, env := range envs { env.Close() }
CloseEnvironment(p, k) ==
    /\ pc[p] = "cl_envs"
    /\ UNCHANGED otherVars
    /\ k \in loc[p].todo
    /\ LET env == loc[p].envs[k] IN
        closeCalls' = [e \in 1..Len(envs) |->
                          IF e = env THEN closeCalls[e] + 1 ELSE closeCalls[e]]
    /\ loc' = [loc EXCEPT ![p].todo = @ \ {k}]
    /\ UnchangedIndex
    /\ UNCHANGED << phase, envs, closed, metricsCloseCalls, providerCloseCalls,
                    cleanupLog, pc, ret, histVars, waitVars >>

\* for _, sp := range r.allStreamProviders() { sp.Close() }: each of the four
\* providers is closed once by this loop
CloseProviders(p) ==
    /\ pc[p] = "cl_envs"
    /\ UNCHANGED otherVars
    /\ loc[p].todo = {}
    /\ providerCloseCalls' = providerCloseCalls + 1
    /\ pc' = [pc EXCEPT ![p] = "idle"]
    /\ loc' = [loc EXCEPT ![p] = NoLoc]
    /\ ret' = [op |-> "close", err |-> "nil",
                                 val |-> "closed", env |-> Nil]
    /\ UnchangedIndex
    /\ UNCHANGED << phase, envs, closeCalls, closed, metricsCloseCalls, cleanupLog,
                    histVars, waitVars >>

(***************************************************************************)
(* Initialization of the environments.                                     *)
(***************************************************************************)
\* EnvContext (relayenv): when its client is ready or has failed for good, the
\* EnvContext records the init error and sends itself on its result channel,
\* once. The channel has capacity 1, so the send never blocks.
EnvInitDone(env, outcome) ==
    /\ env \in 1..Len(envs)
    /\ UNCHANGED otherVars
    /\ initState[env] = "pending"
    /\ initState' = [initState EXCEPT ![env] = outcome]
    /\ resultCh' = [resultCh EXCEPT ![env] = 1]
    /\ UnchangedIndex
    /\ UNCHANGED << phase, envs, closeCalls, closed, metricsCloseCalls,
                    providerCloseCalls, cleanupLog, fwd, clientInitCh, clientInitCap,
                    waiters, pc, loc, ret, histVars >>

\* NewRelayCore's goroutine, first statement: env := <-resultCh
ForwarderReceive(env) ==
    /\ env \in 1..Len(envs)
    /\ UNCHANGED otherVars
    /\ fwd[env] = "recv"
    /\ resultCh[env] = 1
    /\ resultCh' = [resultCh EXCEPT ![env] = 0]
    /\ fwd' = [fwd EXCEPT ![env] = "send"]
    /\ UnchangedIndex
    /\ UNCHANGED << phase, envs, closeCalls, closed, metricsCloseCalls,
                    providerCloseCalls, cleanupLog, initState, clientInitCh,
                    clientInitCap, waiters, pc, loc, ret, histVars >>

\* NewRelayCore's goroutine, second statement: r.clientInitCh <- env
ForwarderSend(env) ==
    /\ env \in 1..Len(envs)
    /\ UNCHANGED otherVars
    /\ fwd[env] = "send"
    /\ Len(clientInitCh) < clientInitCap
    /\ clientInitCh' = Append(clientInitCh, env)
    /\ fwd' = [fwd EXCEPT ![env] = "done"]
    /\ UnchangedIndex
    /\ UNCHANGED << phase, envs, closeCalls, closed, metricsCloseCalls,
                    providerCloseCalls, cleanupLog, initState, resultCh, clientInitCap,
                    waiters, pc, loc, ret, histVars >>

(***************************************************************************)
(* WaitForAllClients: the call up to its select, its goroutine, the timer, *)
(* and the two cases of the select.                                        *)
(***************************************************************************)
\* len(r.allEnvironments), read without the lock
NumEnvironments == Cardinality({ k \in SDKKeys : allEnvironments[k] # Nil })

\* a timer that is started whatever the timeout is
HasTimerAlways(timeout) == TRUE

\* if timeout > 0 { timer := time.NewTimer(timeout); timeoutCh = timer.C }:
\* with timeout 0, timeoutCh stays nil and its select case is never ready
HasTimer(timeout) == timeout > 0

WaitForAllClients(p, timeout) ==
    /\ phase = "running"
    /\ UNCHANGED otherVars
    /\ pc[p] = "idle"
    /\ Len(waiters) < MaxWaits
    /\ waiters' = Append(waiters,
           [numEnvironments |-> NumEnvironments, numFinished |-> 0, failed |-> FALSE,
            got |-> {}, resultCh |-> "empty"])
    /\ loc' = [loc EXCEPT ![p] =
                  [NoLoc EXCEPT !.w = Len(waiters) + 1,
                                !.timeout = timeout,
                                !.timer = IF HasTimer(timeout) THEN "running"
                                          ELSE "none"]]
    /\ pc' = [pc EXCEPT ![p] = "wait_select"]
    /\ UnchangedIndex
    /\ UNCHANGED << phase, envs, closeCalls, closed, metricsCloseCalls,
                    providerCloseCalls, cleanupLog, envVars, clientInitCh, clientInitCap,
                    ret, histVars >>

\* the goroutine's flag that keeps only the last report
FailedLast(failed, initError) == initError

\* the goroutine: if ctx.GetInitError() != nil { failed = true }
Failed(failed, initError) == failed \/ initError

\* the goroutine, one iteration of: for numFinished < numEnvironments
WaiterReceive(w) ==
    /\ w \in 1..Len(waiters)
    /\ UNCHANGED otherVars
    /\ waiters[w].resultCh = "empty"
    /\ waiters[w].numFinished < waiters[w].numEnvironments
    /\ clientInitCh # << >>
    /\ LET ctx == Head(clientInitCh) IN
        waiters' = [waiters EXCEPT
                       ![w].numFinished = @ + 1,
                       ![w].failed = Failed(@, initState[ctx] = "failed"),
                       ![w].got = @ \cup {ctx}]
    /\ clientInitCh' = Tail(clientInitCh)
    /\ UnchangedIndex
    /\ UNCHANGED << phase, envs, closeCalls, closed, metricsCloseCalls,
                    providerCloseCalls, cleanupLog, envVars, clientInitCap, pc, loc,
                    ret, histVars >>

\* the goroutine, after the loop: resultCh <- failed (capacity 1: never blocks)
WaiterSend(w) ==
    /\ w \in 1..Len(waiters)
    /\ UNCHANGED otherVars
    /\ waiters[w].resultCh = "empty"
    /\ waiters[w].numFinished >= waiters[w].numEnvironments
    /\ waiters' = [waiters EXCEPT ![w].resultCh = "full"]
    /\ UnchangedIndex
    /\ UNCHANGED << phase, envs, closeCalls, closed, metricsCloseCalls,
                    providerCloseCalls, cleanupLog, envVars, clientInitCh, clientInitCap,
                    pc, loc, ret, histVars >>

\* the timer of a call with timeout > 0 fires
TimerFires(p) ==
    /\ pc[p] = "wait_select"
    /\ UNCHANGED otherVars
    /\ loc[p].timer = "running"
    /\ loc' = [loc EXCEPT ![p].timer = "fired"]
    /\ UnchangedIndex
    /\ UNCHANGED << phase, envs, closeCalls, closed, metricsCloseCalls,
                    providerCloseCalls, cleanupLog, waitVars, pc, ret, histVars >>

\* the timeout argument of a call, as the returned record keeps it
TimeoutKind(timeout) == IF timeout > 0 THEN "positive" ELSE "zero"

\* select, case failed := <-resultCh
WaitResult(p) ==
    /\ pc[p] = "wait_select"
    /\ UNCHANGED otherVars
    /\ waiters[loc[p].w].resultCh = "full"
    /\ waiters' = [waiters EXCEPT ![loc[p].w].resultCh = "taken"]
    /\ ret' = [op |-> "wait",
               err |-> IF waiters[loc[p].w].failed THEN "errSomeEnvironmentFailed"
                       ELSE "nil",
               val |-> TimeoutKind(loc[p].timeout), env |-> loc[p].w]
    /\ pc' = [pc EXCEPT ![p] = "idle"]
    /\ loc' = [loc EXCEPT ![p] = NoLoc]
    /\ UnchangedIndex
    /\ UNCHANGED << phase, envs, closeCalls, closed, metricsCloseCalls,
                    providerCloseCalls, cleanupLog, envVars, clientInitCh, clientInitCap,
                    histVars >>

\* select, case <-timeoutCh
WaitTimeout(p) ==
    /\ pc[p] = "wait_select"
    /\ UNCHANGED otherVars
    /\ loc[p].timer = "fired"
    /\ ret' = [op |-> "wait", err |-> "errInitializationTimeout",
               val |-> TimeoutKind(loc[p].timeout), env |-> loc[p].w]
    /\ pc' = [pc EXCEPT ![p] = "idle"]
    /\ loc' = [loc EXCEPT ![p] = NoLoc]
    /\ UnchangedIndex
    /\ UNCHANGED << phase, envs, closeCalls, closed, metricsCloseCalls,
                    providerCloseCalls, cleanupLog, waitVars, histVars >>

(***************************************************************************)
(* The callers of a running RelayCore.                                     *)
(***************************************************************************)
\* a failing ConfigureDataStore or NewEnvContext leaves the same state whatever
\* the configuration was
AnyConfig == CHOOSE c \in EnvConfigs : TRUE

AddOutcomes == {"ok", "errConfigureDataStore", "errNewClientContextFailed"}

NewOutcomes ==
    {"ok", "errValidateConfig", "errNewMetricsManagerFailed", "errAddEnvironment"}

\* For the lifecycle of a running RelayCore the initial configuration holds at
\* most one entry: NewRelayCore adds its environments through AddEnvironment,
\* so every further environment comes from the callers' AddEnvironment calls.
CoreConfigs == { c \in InitConfigs : Len(c) <= 1 }

Construct ==
    /\ phase = "configuring"
    /\ \E c \in CoreConfigs, outcome \in NewOutcomes, failAt \in 0..1 :
           /\ failAt <= Len(c)
           /\ NewRelayCore(c, outcome, failAt)

Next ==
    \/ Construct
    \/ \E p \in Procs, envConfig \in EnvConfigs : AddEnvironment(p, envConfig, "ok")
    \/ \E p \in Procs, outcome \in AddOutcomes \ {"ok"} :
           AddEnvironment(p, AnyConfig, outcome)
    \/ \E p \in Procs, sdkKey \in SDKKeys : RemoveEnvironmentLocked(p, sdkKey)
    \/ \E p \in Procs : RemoveEnvironmentUnlocked(p)
    \/ \E p \in Procs : CloseLocked(p)
    \/ \E p \in Procs : CloseMetrics(p)
    \/ \E p \in Procs, k \in SDKKeys : CloseEnvironment(p, k)
    \/ \E p \in Procs : CloseProviders(p)

Spec == Init /\ [][Next]_vars

(***************************************************************************)
(* The initialization wait: NewRelayCore over a whole configuration, the   *)
(* environments reporting, and WaitForAllClients calls.                    *)
(***************************************************************************)
InitOutcomes == {"ok", "failed"}

\* a zero and a positive timeout
Timeouts == {0, 1}

\* WaitForAllClients reads the index only through len(r.allEnvironments): two
\* configurations with different SDK keys (each may occur twice, under two
\* names) and the nil entry give every count the code can see.
WaitEnvConfigs == { c \in EnvConfigs : c.MobileKey = "m1" }

WaitConfigs ==
    { c \in InitConfigs : \A i \in 1..Len(c) : c[i] \in WaitEnvConfigs \cup {NilConfig} }

\* the goroutine that calls WaitForAllClients
WaitProcs == {"p1"}

ConstructAll ==
    /\ phase = "configuring"
    /\ \E c \in WaitConfigs, outcome \in NewOutcomes, failAt \in 0..MaxInitEnvs :
           /\ failAt <= Len(c)
           /\ NewRelayCore(c, outcome, failAt)

NextWait ==
    \/ ConstructAll
    \/ \E env \in 1..MaxEnvs, outcome \in InitOutcomes : EnvInitDone(env, outcome)
    \/ \E env \in 1..MaxEnvs : ForwarderReceive(env)
    \/ \E env \in 1..MaxEnvs : ForwarderSend(env)
    \/ \E p \in WaitProcs, timeout \in Timeouts : WaitForAllClients(p, timeout)
    \/ \E w \in 1..MaxWaits : WaiterReceive(w)
    \/ \E w \in 1..MaxWaits : WaiterSend(w)
    \/ \E p \in WaitProcs : TimerFires(p)
    \/ \E p \in WaitProcs : WaitResult(p)
    \/ \E p \in WaitProcs : WaitTimeout(p)

SpecWait == Init /\ [][NextWait]_vars


(***************************************************************************)
(* Properties of the environment index and of the lifecycle (Spec).        *)
(***************************************************************************)
Envs == 1..Len(envs)

IndexNext == [all |-> allEnvironments', mob |-> envsByMobileKey', id |-> envsByEnvID']

Running == phase = "running"

\* C1: on an open RelayCore, every credential of an environment that was
\* added and has not been removed resolves to that environment's EnvContext.
C1_LiveCredentialsResolve ==
    (Running /\ ~closed) =>
        \A e \in Envs \ removed :
            \A c \in CredentialsOf(envs[e]) : GetEnvironment(c) = e

\* C2: the critical section of a successful RemoveEnvironment leaves every
\* credential of the removed environment resolving to nil, and a credential
\* that resolves to nil resolves to an EnvContext again only by the step that
\* adds an environment carrying it.
C2_RemovedCredentialsResolveToNil ==
    [][ /\ \A p \in Procs :
              (pc[p] = "idle" /\ pc'[p] = "rm_unlocked" /\ loc'[p].env # Nil) =>
                  /\ Lookup(IndexNext, [kind |-> "SDKKey", key |-> loc'[p].sdkKey]) = Nil
                  /\ \A c \in CredentialsOf(envs[loc'[p].env]) :
                         Lookup(IndexNext, c) = Nil
        /\ \A c \in Credentials :
              (GetEnvironment(c) = Nil /\ Lookup(IndexNext, c) # Nil) =>
                  /\ Lookup(IndexNext, c) \in (1..Len(envs')) \ Envs
                  /\ c \in CredentialsOf(envs'[Lookup(IndexNext, c)])
      ]_vars

\* a RemoveEnvironment call has returned true on an open RelayCore and the
\* removed environment's credentials resolve to nil
C2_Witness ==
    /\ Running /\ ~closed
    /\ ret.op = "remove" /\ ret.val = "true"
    /\ envs[ret.env].MobileKey # ""
    /\ \A c \in CredentialsOf(envs[ret.env]) : GetEnvironment(c) = Nil
    /\ \E k \in SDKKeys : allEnvironments[k] # Nil

\* C3: no credential resolves to an EnvContext on which Close has been
\* called, and once RelayCore.Close has set closed every lookup gives nil.
C3_NoClosedEnvironmentResolves ==
    Running =>
        /\ \A c \in Credentials :
               GetEnvironment(c) # Nil => closeCalls[GetEnvironment(c)] = 0
        /\ closed => \A c \in Credentials : GetEnvironment(c) = Nil
        /\ \A p \in Procs, c \in Credentials :
               /\ pc[p] = "rm_unlocked" => GetEnvironment(c) # loc[p].env \/ loc[p].env = Nil
               /\ pc[p] \in {"cl_metrics", "cl_envs"} =>
                      \A k \in loc[p].todo : GetEnvironment(c) # loc[p].envs[k]

\* RemoveEnvironment has closed one environment while another still resolves
C3_Witness ==
    /\ Running
    /\ \E e \in Envs : closeCalls[e] = 1 /\ e \in removed
    /\ \E c \in Credentials : GetEnvironment(c) # Nil

\* C4: an AddEnvironment call whose SDK key is already in the index adds
\* nothing: every EnvContext that is added had an SDK key the index lacked.
C4_DuplicateSDKKeyRejected ==
    [][ \A e \in (1..Len(envs')) \ Envs : allEnvironments[envs'[e].SDKKey] = Nil ]_vars

\* C5: RelayCore calls Close on each EnvContext at most once.
C5_CloseAtMostOnce == \A e \in Envs : closeCalls[e] <= 1

\* RemoveEnvironment has closed one environment and RelayCore.Close is closing
\* another, while a second RemoveEnvironment call is between its Unlock and
\* its return
C5_Witness ==
    /\ \E e \in removed : closeCalls[e] = 1
    /\ \E p, q \in Procs :
           /\ pc[p] = "cl_envs" /\ loc[p].todo = {}
           /\ pc[q] = "rm_unlocked"
    /\ \E e \in Envs \ removed : closeCalls[e] = 1

\* C6: once Close and every RemoveEnvironment call have returned, every
\* EnvContext that AddEnvironment returned has had Close called on it.
C6_EveryEnvironmentClosed ==
    (Running /\ closed /\ \A p \in Procs : pc[p] = "idle") =>
        \A e \in Envs : closeCalls[e] >= 1

\* C7: exactly one Close call passes the closed check and does the closing
\* work, the metrics manager and the stream providers are closed at most once
\* (and once when that call has returned), and closed is never reset.
C7_CloseIdempotent ==
    Running =>
        /\ closers <= 1
        /\ closed <=> closers = 1
        /\ metricsCloseCalls <= closers
        /\ providerCloseCalls <= metricsCloseCalls
        /\ (closed /\ \A p \in Procs : pc[p] \notin {"cl_metrics", "cl_envs"}) =>
               metricsCloseCalls = 1 /\ providerCloseCalls = 1

\* a Close call found the RelayCore closed and returned, after another call
\* had done the closing work
C7_Witness ==
    /\ ret.op = "close" /\ ret.val = "already closed"
    /\ closers = 1 /\ metricsCloseCalls = 1 /\ providerCloseCalls = 1

\* C8: an AddEnvironment call on a closed RelayCore returns errAlreadyClosed,
\* a nil EnvContext and a nil channel, constructs nothing and leaves the index
\* as it was.
C8_AddAfterCloseRejected ==
    [][ (closed /\ ret' # ret /\ ret'.op = "add") =>
            /\ ret'.err = "errAlreadyClosed"
            /\ ret'.env = Nil /\ ret'.val = "nil"
            /\ envs' = envs
            /\ IndexNext = Index
      ]_vars

\* an AddEnvironment call on a closed RelayCore has returned
C8_Witness == closed /\ ret.op = "add" /\ ret.err = "errAlreadyClosed"

\* C9: RemoveEnvironment(k) with no environment under k changes no map, closes
\* nothing and returns false; it returns true exactly when it took an
\* environment out of the index, and then it has called Close on it.
C9_RemoveAbsentIsNoOp ==
    [][ \A p \in Procs :
          /\ (pc[p] = "idle" /\ pc'[p] = "rm_unlocked") =>
                /\ loc'[p].env = allEnvironments[loc'[p].sdkKey]
                /\ loc'[p].env = Nil => IndexNext = Index
                /\ loc'[p].env # Nil =>
                       \A c \in Credentials : Lookup(IndexNext, c) # loc'[p].env
          /\ (pc[p] = "rm_unlocked" /\ pc'[p] = "idle") =>
                /\ IndexNext = Index
                /\ ret'.op = "remove"
                /\ IF loc[p].env = Nil
                   THEN ret'.val = "false" /\ closeCalls' = closeCalls
                   ELSE /\ ret'.val = "true" /\ ret'.env = loc[p].env
                        /\ closeCalls'[loc[p].env] = closeCalls[loc[p].env] + 1
                        /\ \A e \in Envs \ {loc[p].env} : closeCalls'[e] = closeCalls[e]
      ]_vars

\* RemoveEnvironment has returned false on a closed RelayCore
C9_Witness == closed /\ ret.op = "remove" /\ ret.val = "false"

(***************************************************************************)
(* Properties of the initialization wait (SpecWait).                       *)
(***************************************************************************)
\* C10: a WaitForAllClients call that returns through its result channel
\* returns errSomeEnvironmentFailed if one of the EnvContexts reported to it
\* has an init error and nil if none has; it has then received as many
\* reports as it waited for.
C10_WaitResult ==
    (ret.op = "wait" /\ ret.err # "errInitializationTimeout") =>
        LET w == waiters[ret.env] IN
        /\ w.numFinished = w.numEnvironments
        /\ Cardinality(w.got) = w.numFinished
        /\ ret.err = IF \E e \in w.got : initState[e] = "failed"
                     THEN "errSomeEnvironmentFailed" ELSE "nil"

\* a call returned errSomeEnvironmentFailed although one of the environments
\* reported to it had initialized successfully
C10_Witness ==
    /\ ret.op = "wait" /\ ret.err = "errSomeEnvironmentFailed"
    /\ \E e \in waiters[ret.env].got : initState[e] = "ok"
    /\ clientInitCh = << >>

relayCoreVars == << coreVars, waitVars, pc, loc, ret, histVars >>

notEventVars == << relayCoreVars, acquired, metricVars, streamVars, lock >>

\* newEventEndpointDispatcher: the dispatcher keeps the events Config
NewEventEndpointDispatcher(config) ==
    /\ evConfig = NoEventConfig
    /\ evConfig' = config
    /\ UNCHANGED << requests, verbatimRelay, summarizingRelay, relaysBuilt, mu,
                    verbatimIn, summarizingIn, published >>
    /\ UNCHANGED notEventVars

\* a ResponseWriter that drops the status
WriteHeaderIgnored(status, code) == status

\* http.ResponseWriter.WriteHeader: the first status written is the response's
WriteHeader(status, code) == IF status = 0 THEN code ELSE status

\* a dispatcher without the check for an empty body
EmptyBodyNever(body) == FALSE

\* if len(body) == 0
EmptyBody(body) == Len(body) = 0

\* dispatchEvents up to the go statement
DispatchEvents(r, input) ==
    /\ evConfig # NoEventConfig
    /\ requests[r].handler = "idle"
    /\ requests' = [requests EXCEPT ![r] =
          IF input.readErr
          THEN [@ EXCEPT !.input = input,
                         !.status = WriteHeader(@, 400),
                         !.message = "unable to read request body",
                         !.handler = "returned"]
          ELSE IF EmptyBody(input.body)
          THEN [@ EXCEPT !.input = input,
                         !.status = WriteHeader(@, 400),
                         !.message = "body may not be empty",
                         !.handler = "returned"]
          ELSE [@ EXCEPT !.input = input,
                         !.status = WriteHeader(@, 202),
                         !.handler = "accepted"]]
    /\ UNCHANGED << evConfig, verbatimRelay, summarizingRelay, relaysBuilt, mu,
                    verbatimIn, summarizingIn, published >>
    /\ UNCHANGED notEventVars

\* dispatchEvents: go func() { ... }(), and the handler returns
StartWorker(r) ==
    /\ requests[r].handler = "accepted"
    /\ requests' = [requests EXCEPT ![r].handler = "returned",
                                    ![r].worker = "unmarshal"]
    /\ UNCHANGED << evConfig, verbatimRelay, summarizingRelay, relaysBuilt, mu,
                    verbatimIn, summarizingIn, published >>
    /\ UNCHANGED notEventVars

\* the worker: json.Unmarshal, and the payload version of a body that parsed
WorkerUnmarshal(r) ==
    /\ requests[r].worker = "unmarshal"
    /\ LET u == Unmarshal(requests[r].input.body) IN
        requests' = [requests EXCEPT ![r] =
            IF u.err
            THEN [@ EXCEPT !.log = Append(@, "error unmarshaling event post body"),
                           !.worker = "done"]
            ELSE [@ EXCEPT !.evts = u.evts,
                           !.payloadVersion = PayloadVersion(requests[r].input.header),
                           !.worker = "route"]]
    /\ UNCHANGED << evConfig, verbatimRelay, summarizingRelay, relaysBuilt, mu,
                    verbatimIn, summarizingIn, published >>
    /\ UNCHANGED notEventVars

\* a dispatcher that routes every batch to the summarizing relay
IsSummaryVersionNever(payloadVersion) == FALSE

\* if payloadVersion >= SummaryEventsSchemaVersion
IsSummaryVersion(payloadVersion) == payloadVersion >= SummaryEventsSchemaVersion

\* a mutex that anyone can lock at any time
MuFreeAlways(m) == TRUE

\* r.mu.Lock() returns when no worker holds the mutex
MuFree(m) == m = NoHolder

\* a getter that returns without unlocking
StillLocked(m) == m

\* defer r.mu.Unlock(), run when the getter returns
Unlocked(m) == NoHolder

\* the worker: getVerbatimRelay() or getSummarizingRelay(), up to the nil check:
\* r.mu.Lock(); defer r.mu.Unlock(); if r.verbatimRelay == nil
WorkerLock(r) ==
    /\ requests[r].worker = "route"
    /\ MuFree(mu)
    /\ mu' = r
    /\ requests' = [requests EXCEPT
           ![r].worker = "getRelay",
           ![r].build = IF IsSummaryVersion(requests[r].payloadVersion)
                        THEN verbatimRelay = Nil ELSE summarizingRelay = Nil]
    /\ UNCHANGED << evConfig, verbatimRelay, summarizingRelay, relaysBuilt,
                    verbatimIn, summarizingIn, published >>
    /\ UNCHANGED notEventVars

\* the worker: the rest of the getter. r.verbatimRelay = newEventVerbatimRelay(...)
\* if the field was nil, then return r.verbatimRelay and the deferred Unlock;
\* the same for the summarizing relay. Each constructed relay is a new instance.
WorkerGetRelay(r) ==
    /\ requests[r].worker = "getRelay"
    /\ mu' = Unlocked(mu)
    /\ IF IsSummaryVersion(requests[r].payloadVersion)
       THEN LET relay == IF requests[r].build THEN relaysBuilt.verbatim + 1
                         ELSE verbatimRelay
            IN  /\ requests' = [requests EXCEPT ![r].worker = "enqueueVerbatim",
                                                ![r].relay = relay]
                /\ verbatimRelay' = relay
                /\ relaysBuilt' =
                       IF requests[r].build
                       THEN [relaysBuilt EXCEPT !.verbatim = @ + 1] ELSE relaysBuilt
                /\ UNCHANGED summarizingRelay
       ELSE LET relay == IF requests[r].build THEN relaysBuilt.summarizing + 1
                         ELSE summarizingRelay
            IN  /\ requests' = [requests EXCEPT ![r].worker = "enqueueSummarizing",
                                                ![r].relay = relay]
                /\ summarizingRelay' = relay
                /\ relaysBuilt' =
                       IF requests[r].build
                       THEN [relaysBuilt EXCEPT !.summarizing = @ + 1] ELSE relaysBuilt
                /\ UNCHANGED verbatimRelay
    /\ UNCHANGED << evConfig, verbatimIn, summarizingIn, published >>
    /\ UNCHANGED notEventVars

\* rGen.Int31n(n): some value of 0..n-1
Int31n(n) == 0..(n - 1)

\* a PublishRaw call that leaves out the first record
PublishRawTail(evts) == IF evts = << >> THEN evts ELSE Tail(evts)

\* er.publisher.PublishRaw(evts...): the arguments of the call
PublishRawArgs(evts) == evts

\* a relay that keeps every batch whatever the draw was
SampledOutNever(draw) == FALSE

\* rGen.Int31n(er.config.SamplingInterval) != 0: the batch is dropped
SampledOut(draw) == draw # 0

\* the workers that are inside rGen.Int31n
Drawing == { q \in Requests : requests[q].worker = "drawing" }

\* the worker: eventVerbatimRelay.enqueue(evts), up to its end or, under a
\* positive SamplingInterval, up to the call of rGen.Int31n, which takes no
\* lock: a worker that enters it while another is inside races with that one.
\* panics: the PublishRaw call panics (the error of NewHttpEventPublisher is
\* dropped, so publisher may be nil); the worker's deferred function recovers
\* and logs it.
WorkerEnqueueVerbatim(r, panics) ==
    /\ requests[r].worker = "enqueueVerbatim"
    /\ verbatimIn' = Append(verbatimIn, [req |-> r, evts |-> requests[r].evts])
    /\ IF ~ evConfig.SendEvents
       THEN /\ ~ panics
            /\ requests' = [requests EXCEPT ![r].worker = "done"]
            /\ UNCHANGED published
       ELSE IF evConfig.SamplingInterval > 0
       THEN /\ ~ panics
            /\ requests' =
                   [q \in Requests |->
                       IF q = r
                       THEN [requests[q] EXCEPT !.worker = "drawing",
                                                !.raced = Drawing # {}]
                       ELSE IF q \in Drawing
                       THEN [requests[q] EXCEPT !.raced = TRUE]
                       ELSE requests[q]]
            /\ UNCHANGED published
       ELSE IF panics
       THEN /\ requests' = [requests EXCEPT
                   ![r].worker = "recovered",
                   ![r].log = Append(@, "unexpected panic in event relay")]
            /\ UNCHANGED published
       ELSE /\ requests' = [requests EXCEPT ![r].worker = "done"]
            /\ published' = Append(published,
                   [req |-> r, records |-> PublishRawArgs(requests[r].evts)])
    /\ UNCHANGED << evConfig, verbatimRelay, summarizingRelay, relaysBuilt, mu,
                    summarizingIn >>
    /\ UNCHANGED notEventVars

\* the worker: rGen.Int31n returns draw, and the rest of enqueue. rGen is a
\* rand.Rand over an unlocked source: a call that ran while another call was
\* inside returns some value of the range or panics on the source's indices
\* (draw = NoDraw); the worker's deferred function recovers that panic too.
WorkerDraw(r, draw, panics) ==
    /\ requests[r].worker = "drawing"
    /\ IF draw = NoDraw
       THEN /\ requests[r].raced /\ panics
            /\ requests' = [requests EXCEPT
                   ![r].worker = "recovered",
                   ![r].log = Append(@, "unexpected panic in event relay")]
            /\ UNCHANGED published
       ELSE /\ draw \in Int31n(evConfig.SamplingInterval)
            /\ IF SampledOut(draw)
               THEN /\ ~ panics
                    /\ requests' = [requests EXCEPT ![r].worker = "done",
                                                    ![r].draw = draw]
                    /\ UNCHANGED published
               ELSE IF panics
               THEN /\ requests' = [requests EXCEPT
                           ![r].worker = "recovered",
                           ![r].draw = draw,
                           ![r].log = Append(@, "unexpected panic in event relay")]
                    /\ UNCHANGED published
               ELSE /\ requests' = [requests EXCEPT ![r].worker = "done",
                                                    ![r].draw = draw]
                    /\ published' = Append(published,
                           [req |-> r, records |-> PublishRawArgs(requests[r].evts)])
    /\ UNCHANGED << evConfig, verbatimRelay, summarizingRelay, relaysBuilt, mu,
                    verbatimIn, summarizingIn >>
    /\ UNCHANGED notEventVars

\* the worker: eventSummarizingRelay.enqueue(evts, payloadVersion)
WorkerEnqueueSummarizing(r, panics) ==
    /\ requests[r].worker = "enqueueSummarizing"
    /\ summarizingIn' = Append(summarizingIn,
           [req |-> r, evts |-> requests[r].evts,
            payloadVersion |-> requests[r].payloadVersion])
    /\ requests' = [requests EXCEPT ![r] =
           IF panics
           THEN [@ EXCEPT !.worker = "recovered",
                          !.log = Append(@, "unexpected panic in event relay")]
           ELSE [@ EXCEPT !.worker = "done"]]
    /\ UNCHANGED << evConfig, verbatimRelay, summarizingRelay, relaysBuilt, mu,
                    verbatimIn, published >>
    /\ UNCHANGED notEventVars

\* the draws of Int31n for the sampling intervals of EventConfigs
Draws == {0, 1}

NextEvents ==
    \/ \E config \in EventConfigs : NewEventEndpointDispatcher(config)
    \/ \E r \in Requests, input \in RequestInputs : DispatchEvents(r, input)
    \/ \E r \in Requests : StartWorker(r)
    \/ \E r \in Requests : WorkerUnmarshal(r)
    \/ \E r \in Requests : WorkerLock(r)
    \/ \E r \in Requests : WorkerGetRelay(r)
    \/ \E r \in Requests, panics \in BOOLEAN : WorkerEnqueueVerbatim(r, panics)
    \/ \E r \in Requests, draw \in Draws \cup {NoDraw}, panics \in BOOLEAN :
           WorkerDraw(r, draw, panics)
    \/ \E r \in Requests, panics \in BOOLEAN : WorkerEnqueueSummarizing(r, panics)

SpecEvents == Init /\ [][NextEvents]_vars

(***************************************************************************)
(* Properties of the events endpoint dispatcher (SpecEvents).              *)
(***************************************************************************)
Handled(r) == requests[r].handler # "idle"

\* the enqueue calls a request's batch has reached, per relay
VerbatimCalls(r) == { i \in 1..Len(verbatimIn) : verbatimIn[i].req = r }

SummarizingCalls(r) == { i \in 1..Len(summarizingIn) : summarizingIn[i].req = r }

PublishCalls(r) == { i \in 1..Len(published) : published[i].req = r }

\* C12: a request whose body is empty or cannot be read is answered with
\* status 400 and an error message ("body may not be empty" for the empty
\* body); it never gets 202, no worker is started for it and nothing of it
\* reaches a relay or the publisher.
C12_EmptyBodyRejected ==
    \A r \in Requests :
        (Handled(r) /\ (requests[r].input.readErr \/ requests[r].input.body = << >>)) =>
            /\ requests[r].status = 400
            /\ requests[r].message =
                  IF requests[r].input.readErr THEN "unable to read request body"
                  ELSE "body may not be empty"
            /\ requests[r].handler = "returned"
            /\ requests[r].worker = "none"
            /\ VerbatimCalls(r) = {} /\ SummarizingCalls(r) = {} /\ PublishCalls(r) = {}

\* a request with an empty body got its 400 while another request's batch
\* was published
C12_Witness ==
    \E r, q \in Requests :
        /\ Handled(r) /\ ~ requests[r].input.readErr /\ requests[r].input.body = << >>
        /\ requests[r].status = 400
        /\ PublishCalls(q) # {}

\* C13: a request with a non-empty readable body has status 202 from the
\* moment the handler has looked at it: before its worker exists, while the
\* worker parses and enqueues, and after the worker has ended, whether it
\* ended by a parse failure, a dropped batch or a recovered panic.
C13_AcceptedBeforeProcessing ==
    [][\A r \in Requests :
          /\ (requests'[r].handler # "idle" /\ ~ requests'[r].input.readErr
                  /\ requests'[r].input.body # << >>) => requests'[r].status = 202
          /\ requests'[r].worker # "none" => requests'[r].status = 202
          /\ requests[r].status = 202 =>
                /\ requests'[r].status = 202
                /\ requests'[r].input = requests[r].input
      ]_vars

\* one worker ended in a recovered panic and another in a parse failure, and
\* both requests still have status 202
C13_Witness ==
    \E r, q \in Requests :
        /\ requests[r].worker = "recovered" /\ requests[r].status = 202
        /\ requests[q].worker = "done" /\ requests[q].log # << >>
        /\ requests[q].status = 202

\* C14: a batch reaches at most one enqueue call over both relays; when the
\* worker of a body that is a JSON array has ended, the batch has reached
\* exactly one: the verbatim relay's if the payload version is at least 3,
\* else the summarizing relay's. A body that fails to parse reaches neither.
C14_HandedToOneRelayOnce ==
    \A r \in Requests :
        LET nV == Cardinality(VerbatimCalls(r))
            nS == Cardinality(SummarizingCalls(r))
            body == requests[r].input.body
            isArray == /\ Len(body) >= 2 /\ body[1] = "[" /\ body[Len(body)] = "]"
                       /\ ~ Unmarshal(body).err
        IN  /\ nV + nS <= 1
            /\ (Handled(r) /\ ~ isArray) => nV + nS = 0
            /\ nV = 1 => requests[r].payloadVersion >= 3
            /\ nS = 1 => requests[r].payloadVersion < 3
            /\ (isArray /\ requests[r].worker \in {"done", "recovered"}) => nV + nS = 1

\* one batch has reached the verbatim relay and another the summarizing relay
C14_Witness ==
    \E r, q \in Requests :
        /\ VerbatimCalls(r) # {} /\ SummarizingCalls(q) # {}
        /\ requests[r].worker = "done" /\ requests[q].worker = "done"

\* C15: the payload version of a request is the integer value of its schema
\* header, and 1 when the header is absent or does not parse as an integer.
C15_VersionIsHeaderValue ==
    \A r \in Requests :
        requests[r].worker \in {"route", "getRelay", "enqueueVerbatim", "drawing",
                                "enqueueSummarizing"} =>
            requests[r].payloadVersion =
                IF AtoiResult(requests[r].input.header).err # "nil" THEN 1
                ELSE AtoiResult(requests[r].input.header).val

\* C16: every PublishRaw call of the verbatim relay carries the records of
\* one request's body, all of them, in the order of the body; the request's
\* payload version is at least 3 and its batch is published at most once.
C16_PublishedVerbatim ==
    /\ \A i \in 1..Len(published) :
           LET r == published[i].req IN
           /\ published[i].records =
                  SelectSeq(requests[r].input.body, LAMBDA t : t \in Records)
           /\ requests[r].payloadVersion >= 3
           /\ VerbatimCalls(r) # {}
    /\ \A r \in Requests : Cardinality(PublishCalls(r)) <= 1

\* a batch of two records has been published
C16_Witness ==
    \E i \in 1..Len(published) :
        /\ Len(published[i].records) = 2
        /\ requests[published[i].req].worker = "done"

(***************************************************************************)
(* Properties of NewRelayCore's cleanup (SpecWait).                        *)
(***************************************************************************)
\* a sequence back to front
Reverse(seq) == [i \in 1..Len(seq) |-> seq[Len(seq) + 1 - i]]

\* C17: when NewRelayCore has failed, everything it had constructed has been
\* closed, once, last constructed first (the EnvContexts it added, then the
\* metrics manager), and a configuration rejected as invalid or empty has
\* constructed nothing; when it has succeeded, nothing has been closed.
C17_FailedConstructionReleasesAll ==
    /\ phase = "failed" =>
          /\ cleanupLog = Reverse(acquired)
          /\ \A e \in Envs : closeCalls[e] = 1
          /\ metricsCloseCalls = Cardinality({ i \in 1..Len(acquired) :
                                                 acquired[i] = MetricsTask })
    /\ (phase = "running" /\ ~ closed) =>
          /\ cleanupLog = << >>
          /\ \A e \in Envs : closeCalls[e] = 0
          /\ metricsCloseCalls = 0 /\ providerCloseCalls = 0

(***************************************************************************)
(* The metrics Manager and WithGauge.                                      *)
(***************************************************************************)
notMetricVars == << relayCoreVars, eventVars, acquired, streamVars, lock >>

\* metrics.NewManager
NewManager ==
    /\ mgr = "none"
    /\ mgr' = "open"
    /\ UNCHANGED << mgrScopes, mgrEnvironments, mgrRet, gauge, gaugeCalls >>
    /\ UNCHANGED notMetricVars

\* a Manager that goes on registering after Close
ManagerRejectsNever == FALSE

\* Manager.AddEnvironment after Close fails
ManagerRejects == mgr = "closed"

\* Manager.AddEnvironment(envName, publisher)
ManagerAddEnvironment(envName) ==
    /\ mgr # "none"
    /\ IF ManagerRejects
       THEN /\ mgrRet' = [err |-> "ManagerClosed", env |-> Nil]
            /\ UNCHANGED << mgrScopes, mgrEnvironments >>
       ELSE /\ Len(mgrScopes) < MaxScopes
            /\ mgrScopes' = Append(mgrScopes, envName)
            /\ mgrEnvironments' = mgrEnvironments \cup {Len(mgrScopes) + 1}
            /\ mgrRet' = [err |-> "nil", env |-> Len(mgrScopes) + 1]
    /\ UNCHANGED << mgr, gauge, gaugeCalls >>
    /\ UNCHANGED notMetricVars

\* Manager.RemoveEnvironment(env)
ManagerRemoveEnvironment(scope) ==
    /\ mgr # "none"
    /\ scope \in mgrEnvironments
    /\ mgrEnvironments' = mgrEnvironments \ {scope}
    /\ UNCHANGED << mgr, mgrScopes, mgrRet, gauge, gaugeCalls >>
    /\ UNCHANGED notMetricVars

\* Manager.Close
ManagerClose ==
    /\ mgr = "open"
    /\ mgr' = "closed"
    /\ UNCHANGED << mgrScopes, mgrEnvironments, mgrRet, gauge, gaugeCalls >>
    /\ UNCHANGED notMetricVars

\* the gauge of a scope, moved by delta in the public and in the private view
Record(scope, delta) ==
    [gauge EXCEPT ![scope] = [public |-> @.public + delta, private |-> @.private + delta]]

\* WithGauge(ctx, userAgent, f, measure), on entry: the gauge goes up, f starts
WithGaugeEnter(g, scope) ==
    /\ gaugeCalls[g].state # "running"
    /\ scope \in 1..Len(mgrScopes)
    /\ gauge' = Record(scope, 1)
    /\ gaugeCalls' = [gaugeCalls EXCEPT ![g] = [state |-> "running", scope |-> scope]]
    /\ UNCHANGED << mgr, mgrScopes, mgrEnvironments, mgrRet >>
    /\ UNCHANGED notMetricVars

\* a WithGauge that lowers the gauge only when f returns
FinalizesOnReturn(abnormal) == ~ abnormal

\* WithGauge lowers the gauge when f exits, however it exits
Finalizes(abnormal) == TRUE

\* WithGauge, when f exits: by returning, or abnormally (a panic)
WithGaugeExit(g, abnormal) ==
    /\ gaugeCalls[g].state = "running"
    /\ gauge' = IF Finalizes(abnormal) THEN Record(gaugeCalls[g].scope, -1) ELSE gauge
    /\ gaugeCalls' = [gaugeCalls EXCEPT
                         ![g].state = IF abnormal THEN "panicked" ELSE "returned"]
    /\ UNCHANGED << mgr, mgrScopes, mgrEnvironments, mgrRet >>
    /\ UNCHANGED notMetricVars

NextMetrics ==
    \/ NewManager
    \/ \E envName \in MetricEnvNames : ManagerAddEnvironment(envName)
    \/ \E scope \in 1..MaxScopes : ManagerRemoveEnvironment(scope)
    \/ ManagerClose
    \/ \E g \in GaugeCallers, scope \in 1..MaxScopes : WithGaugeEnter(g, scope)
    \/ \E g \in GaugeCallers, abnormal \in BOOLEAN : WithGaugeExit(g, abnormal)

SpecMetrics == Init /\ [][NextMetrics]_vars

(***************************************************************************)
(* Properties of the metrics Manager (SpecMetrics).                        *)
(***************************************************************************)
\* C18: an AddEnvironment call on a closed Manager returns an error and a nil
\* environment, creates no scope and registers none.
C18_AddAfterManagerClosed ==
    [][ \A envName \in MetricEnvNames :
          (mgr = "closed" /\ ManagerAddEnvironment(envName)) =>
              /\ mgrRet'.err # "nil"
              /\ mgrRet'.env = Nil
              /\ mgrScopes' = mgrScopes
              /\ mgrEnvironments' = mgrEnvironments
      ]_vars

\* AddEnvironment has failed on a closed Manager that had created a scope
\* while it was open
C18_Witness ==
    /\ mgr = "closed" /\ mgrScopes # << >>
    /\ mgrRet.err = "ManagerClosed" /\ mgrRet.env = Nil

\* the WithGauge calls whose function is running on a scope
RunningOn(scope) ==
    { g \in GaugeCallers : gaugeCalls[g].state = "running" /\ gaugeCalls[g].scope = scope }

\* C19: in the public and in the private view alike, the connection gauge of
\* a scope counts the WithGauge calls whose function is running on it: each
\* call adds 1 while its function runs and nothing once the function has
\* exited, by a return or abnormally.
C19_GaugeCountsRunningCalls ==
    \A scope \in 1..MaxScopes :
        /\ gauge[scope].public = Cardinality(RunningOn(scope))
        /\ gauge[scope].private = Cardinality(RunningOn(scope))

\* on one scope a call has exited abnormally and another has returned, and
\* the gauge is back at 0
C19_Witness ==
    \E g, h \in GaugeCallers :
        /\ gaugeCalls[g].state = "panicked" /\ gaugeCalls[h].state = "returned"
        /\ gaugeCalls[g].scope = gaugeCalls[h].scope
        /\ gauge[gaugeCalls[g].scope] = [public |-> 0, private |-> 0]

(***************************************************************************)
(* A StreamProvider's fan-out to the subscribers of its environments.      *)
(* The updates of an environment are numbered in the order its single      *)
(* upstream stream brings them.                                            *)
(***************************************************************************)
notStreamVars == << relayCoreVars, eventVars, acquired, metricVars, lock >>

\* Registration: the subscriber gets the initial event for the current
\* snapshot and thereafter every update that follows it
\* a registration with a closed environment ends at once
RegisteredState(env) == IF streamClosed[env] THEN "closed" ELSE "open"

Register(sub, env) ==
    /\ subscribers[sub].state = "none"
    /\ subscribers' = [subscribers EXCEPT ![sub] =
           [state |-> RegisteredState(env), env |-> env, from |-> streamUpdates[env],
            buffer |-> << >>, observed |-> << >>]]
    /\ UNCHANGED << streamUpdates, streamClosed >>
    /\ UNCHANGED notStreamVars

\* an outbound buffer that hands out the newest update first
EnqueueFront(buffer, update) == << update >> \o buffer

\* the outbound buffer keeps the updates in arrival order
Enqueue(buffer, update) == Append(buffer, update)

\* an update of env arrives: every open subscriber of env gets it into its
\* buffer; a subscriber whose buffer is full is closed as a slow consumer
Publish(env) ==
    /\ streamUpdates[env] < MaxUpdates
    /\ LET update == streamUpdates[env] + 1 IN
        /\ streamUpdates' = [streamUpdates EXCEPT ![env] = update]
        /\ subscribers' = [sub \in Subscribers |->
               IF subscribers[sub].state = "open" /\ subscribers[sub].env = env
               THEN IF Len(subscribers[sub].buffer) < BufferSize
                    THEN [subscribers[sub] EXCEPT !.buffer = Enqueue(@, update)]
                    ELSE [subscribers[sub] EXCEPT !.state = "slow-consumer",
                                                  !.buffer = << >>]
               ELSE subscribers[sub]]
    /\ UNCHANGED streamClosed
    /\ UNCHANGED notStreamVars

\* the subscriber's connection takes the next update out of its buffer
Deliver(sub) ==
    /\ subscribers[sub].state = "open"
    /\ subscribers[sub].buffer # << >>
    /\ subscribers' = [subscribers EXCEPT
           ![sub].observed = Append(@, Head(subscribers[sub].buffer)),
           ![sub].buffer = Tail(@)]
    /\ UNCHANGED << streamUpdates, streamClosed >>
    /\ UNCHANGED notStreamVars

\* an EnvContext teardown that leaves the subscribers connected
ClosesSubscriberNever(sub, env) == FALSE

\* EnvContext.Close closes all provider subscribers for this environment
ClosesSubscriber(sub, env) ==
    subscribers[sub].state = "open" /\ subscribers[sub].env = env

\* EnvContext.Close, as RemoveEnvironment and RelayCore.Close call it: the
\* streams of the environment's subscribers end, what they had buffered is
\* dropped. A second Close changes nothing.
EnvContextClose(env) ==
    /\ streamClosed' = [streamClosed EXCEPT ![env] = TRUE]
    /\ subscribers' = [sub \in Subscribers |->
           IF ClosesSubscriber(sub, env)
           THEN [subscribers[sub] EXCEPT !.state = "closed", !.buffer = << >>]
           ELSE subscribers[sub]]
    /\ UNCHANGED streamUpdates
    /\ UNCHANGED notStreamVars

NextStreams ==
    \/ \E sub \in Subscribers, env \in StreamEnvs : Register(sub, env)
    \/ \E env \in StreamEnvs : Publish(env)
    \/ \E sub \in Subscribers : Deliver(sub)
    \/ \E env \in StreamEnvs : EnvContextClose(env)

SpecStreams == Init /\ [][NextStreams]_vars

(***************************************************************************)
(* Properties of the fan-out (SpecStreams).                                *)
(***************************************************************************)
\* C20: what a subscriber has observed is a run of consecutive updates of
\* its environment, in the order of the environment's stream, starting with
\* the first update after its registration; so no two subscribers of one
\* environment have observed the same two updates in opposite orders.
C20_CommonOrder ==
    /\ \A sub \in Subscribers :
           \A i \in 1..Len(subscribers[sub].observed) :
               subscribers[sub].observed[i] = subscribers[sub].from + i
    /\ \A sub, other \in Subscribers :
           subscribers[sub].env = subscribers[other].env =>
               LET a == subscribers[sub].observed
                   b == subscribers[other].observed
               IN  \A i, j \in 1..Len(a), k, l \in 1..Len(b) :
                       (i < j /\ a[i] = b[k] /\ a[j] = b[l]) => k < l

\* two subscribers of one environment that registered at different times
\* have both observed the same two updates
C20_Witness ==
    \E sub, other \in Subscribers :
        /\ sub # other
        /\ subscribers[sub].env = subscribers[other].env
        /\ subscribers[sub].from < subscribers[other].from
        /\ Len(subscribers[sub].observed) = 3
        /\ Len(subscribers[other].observed) = 2

\* C21: once the EnvContext of an environment has been closed, none of the
\* environment's subscribers has an open stream, and what a subscriber of
\* the environment has observed never grows again.
C21_ClosedEnvironmentEndsStreams ==
    [][\A sub \in Subscribers :
          (subscribers'[sub].state # "none" /\ streamClosed'[subscribers'[sub].env]) =>
              /\ subscribers'[sub].state # "open"
              /\ (subscribers[sub].state # "none" /\ streamClosed[subscribers[sub].env]) =>
                     subscribers'[sub].observed = subscribers[sub].observed
      ]_vars

\* the environment was closed while a subscriber that had observed an update
\* had another one buffered, and a further update has arrived since
C21_Witness ==
    \E sub \in Subscribers :
        /\ subscribers[sub].state = "closed"
        /\ streamClosed[subscribers[sub].env]
        /\ Len(subscribers[sub].observed) = 1
        /\ streamUpdates[subscribers[sub].env] = 3


(***************************************************************************)
(* RelayCore.lock, statement by statement: every access of one of the      *)
(* three index maps is a step of its own, taken at a pc label that names   *)
(* the access, so that two methods can be inside their map accesses at the *)
(* same time exactly when the lock allows it.                              *)
(***************************************************************************)
notLockVars == << eventVars, acquired, metricVars, streamVars >>

\* sync.RWMutex.Lock returns when no writer and no reader holds the lock
CanLock == lock.writer = NoWriter /\ lock.readers = {}

\* sync.RWMutex.RLock returns when no writer holds the lock
CanRLock == lock.writer = NoWriter

\* GetEnvironment: r.lock.RLock(); defer r.lock.RUnlock()
GetEnvironmentRLock(p, credential) ==
    /\ phase = "running"
    /\ pc[p] = "idle"
    /\ CanRLock
    /\ lock' = [lock EXCEPT !.readers = @ \cup {p}]
    /\ pc' = [pc EXCEPT ![p] = "get_read"]
    /\ loc' = [loc EXCEPT ![p] = [NoLoc EXCEPT !.credential = credential]]
    /\ UnchangedIndex
    /\ UNCHANGED << phase, envs, closeCalls, closed, metricsCloseCalls,
                    providerCloseCalls, cleanupLog, ret, histVars, waitVars,
                    notLockVars >>

\* GetEnvironment: the type switch and its one map read, then the deferred RUnlock
GetEnvironmentRead(p) ==
    /\ pc[p] = "get_read"
    /\ ret' = [op |-> "get", err |-> "nil", val |-> "env",
               env |-> Lookup(Index, loc[p].credential)]
    /\ lock' = [lock EXCEPT !.readers = @ \ {p}]
    /\ pc' = [pc EXCEPT ![p] = "idle"]
    /\ loc' = [loc EXCEPT ![p] = NoLoc]
    /\ UnchangedIndex
    /\ UNCHANGED << phase, envs, closeCalls, closed, metricsCloseCalls,
                    providerCloseCalls, cleanupLog, histVars, waitVars,
                    notLockVars >>

\* GetAllEnvironments: r.lock.RLock(); defer r.lock.RUnlock()
GetAllEnvironmentsRLock(p) ==
    /\ phase = "running"
    /\ pc[p] = "idle"
    /\ CanRLock
    /\ lock' = [lock EXCEPT !.readers = @ \cup {p}]
    /\ pc' = [pc EXCEPT ![p] = "getall_read"]
    /\ UnchangedIndex
    /\ UNCHANGED << phase, envs, closeCalls, closed, metricsCloseCalls,
                    providerCloseCalls, cleanupLog, loc, ret, histVars, waitVars,
                    notLockVars >>

\* GetAllEnvironments: the copy of r.allEnvironments, then the deferred RUnlock
GetAllEnvironmentsRead(p) ==
    /\ pc[p] = "getall_read"
    /\ ret' = [op |-> "getall", err |-> "nil", val |-> "map",
               env |-> Cardinality({ k \in SDKKeys : allEnvironments[k] # Nil })]
    /\ lock' = [lock EXCEPT !.readers = @ \ {p}]
    /\ pc' = [pc EXCEPT ![p] = "idle"]
    /\ UnchangedIndex
    /\ UNCHANGED << phase, envs, closeCalls, closed, metricsCloseCalls,
                    providerCloseCalls, cleanupLog, loc, histVars, waitVars,
                    notLockVars >>

\* AddEnvironment: r.lock.Lock(); defer r.lock.Unlock(); the closed check,
\* ConfigureDataStore and NewEnvContext. A failing call returns, and unlocks,
\* before any map access
AddEnvironmentLock(p, envConfig, outcome) ==
    /\ phase = "running"
    /\ pc[p] = "idle"
    /\ CanLock
    /\ UnchangedIndex
    /\ UNCHANGED << phase, closed, metricsCloseCalls, providerCloseCalls, cleanupLog,
                    histVars, clientInitCh, clientInitCap, waiters, notLockVars >>
    /\ IF AddRejected
       THEN /\ ret' = [op |-> "add", err |-> "errAlreadyClosed",
                       val |-> "nil", env |-> Nil]
            /\ UNCHANGED << envs, closeCalls, envVars, pc, loc, lock >>
       ELSE IF outcome # "ok"
       THEN /\ ret' = [op |-> "add", err |-> outcome, val |-> "nil", env |-> Nil]
            /\ UNCHANGED << envs, closeCalls, envVars, pc, loc, lock >>
       ELSE /\ Len(envs) < MaxEnvs
            /\ envs' = Append(envs, envConfig)
            /\ closeCalls' = Append(closeCalls, 0)
            /\ initState' = Append(initState, "pending")
            /\ resultCh' = Append(resultCh, 0)
            /\ fwd' = Append(fwd, "none")
            /\ lock' = [lock EXCEPT !.writer = p]
            /\ loc' = [loc EXCEPT ![p] = [NoLoc EXCEPT !.envConfig = envConfig,
                                                       !.env = Len(envs) + 1]]
            /\ pc' = [pc EXCEPT ![p] = "add_all"]
            /\ UNCHANGED ret

\* r.allEnvironments[envConfig.SDKKey] = clientContext
AddEnvironmentWriteAll(p) ==
    /\ pc[p] = "add_all"
    /\ allEnvironments' =
           [allEnvironments EXCEPT ![loc[p].envConfig.SDKKey] = loc[p].env]
    /\ pc' = [pc EXCEPT ![p] = "add_mob"]
    /\ UNCHANGED << phase, envs, closeCalls, closed, metricsCloseCalls,
                    providerCloseCalls, cleanupLog, envsByMobileKey, envsByEnvID,
                    loc, ret, histVars, waitVars, otherVars >>

\* if envConfig.MobileKey != "" { r.envsByMobileKey[envConfig.MobileKey] = clientContext }
AddEnvironmentWriteMobileKey(p) ==
    /\ pc[p] = "add_mob"
    /\ envsByMobileKey' =
           IF loc[p].envConfig.MobileKey # ""
           THEN [envsByMobileKey EXCEPT ![loc[p].envConfig.MobileKey] = loc[p].env]
           ELSE envsByMobileKey
    /\ pc' = [pc EXCEPT ![p] = "add_id"]
    /\ UNCHANGED << phase, envs, closeCalls, closed, metricsCloseCalls,
                    providerCloseCalls, cleanupLog, allEnvironments, envsByEnvID,
                    loc, ret, histVars, waitVars, otherVars >>

\* if envConfig.EnvID != "" { r.envsByEnvID[envConfig.EnvID] = clientContext };
\* return clientContext, resultCh, nil, and the deferred Unlock
AddEnvironmentWriteEnvID(p) ==
    /\ pc[p] = "add_id"
    /\ envsByEnvID' =
           IF loc[p].envConfig.EnvID # ""
           THEN [envsByEnvID EXCEPT ![loc[p].envConfig.EnvID] = loc[p].env]
           ELSE envsByEnvID
    /\ lock' = [lock EXCEPT !.writer = NoWriter]
    /\ ret' = [op |-> "add", err |-> "nil", val |-> "resultCh", env |-> loc[p].env]
    /\ pc' = [pc EXCEPT ![p] = "idle"]
    /\ loc' = [loc EXCEPT ![p] = NoLoc]
    /\ UNCHANGED << phase, envs, closeCalls, closed, metricsCloseCalls,
                    providerCloseCalls, cleanupLog, allEnvironments, envsByMobileKey,
                    histVars, waitVars, notLockVars >>

\* RemoveEnvironment: r.lock.Lock()
RemoveEnvironmentLock(p, sdkKey) ==
    /\ phase = "running"
    /\ pc[p] = "idle"
    /\ CanLock
    /\ lock' = [lock EXCEPT !.writer = p]
    /\ loc' = [loc EXCEPT ![p] = [NoLoc EXCEPT !.sdkKey = sdkKey]]
    /\ pc' = [pc EXCEPT ![p] = "rm_read"]
    /\ UnchangedIndex
    /\ UNCHANGED << phase, envs, closeCalls, closed, metricsCloseCalls,
                    providerCloseCalls, cleanupLog, ret, histVars, waitVars,
                    notLockVars >>

\* env := r.allEnvironments[sdkKey]; with env == nil the deletes are skipped
\* and the lock is released
RemoveEnvironmentRead(p) ==
    /\ pc[p] = "rm_read"
    /\ LET env == allEnvironments[loc[p].sdkKey] IN
        /\ loc' = [loc EXCEPT ![p].env = env]
        /\ IF env # Nil
           THEN /\ pc' = [pc EXCEPT ![p] = "rm_del_all"]
                /\ removed' = removed \cup {env}
                /\ UNCHANGED lock
           ELSE /\ pc' = [pc EXCEPT ![p] = "rm_unlocked"]
                /\ lock' = [lock EXCEPT !.writer = NoWriter]
                /\ UNCHANGED removed
    /\ UnchangedIndex
    /\ UNCHANGED << phase, envs, closeCalls, closed, metricsCloseCalls,
                    providerCloseCalls, cleanupLog, ret, closers, waitVars,
                    notLockVars >>

\* delete(r.allEnvironments, sdkKey)
RemoveEnvironmentDeleteAll(p) ==
    /\ pc[p] = "rm_del_all"
    /\ allEnvironments' = [allEnvironments EXCEPT ![loc[p].sdkKey] = Nil]
    /\ pc' = [pc EXCEPT ![p] = "rm_del_mob"]
    /\ UNCHANGED << phase, envs, closeCalls, closed, metricsCloseCalls,
                    providerCloseCalls, cleanupLog, envsByMobileKey, envsByEnvID,
                    loc, ret, histVars, waitVars, otherVars >>

\* delete(r.envsByMobileKey, env.GetCredentials().MobileKey)
RemoveEnvironmentDeleteMobileKey(p) ==
    /\ pc[p] = "rm_del_mob"
    /\ envsByMobileKey' =
           [envsByMobileKey EXCEPT ![envs[loc[p].env].MobileKey] = Nil]
    /\ pc' = [pc EXCEPT ![p] = "rm_del_id"]
    /\ UNCHANGED << phase, envs, closeCalls, closed, metricsCloseCalls,
                    providerCloseCalls, cleanupLog, allEnvironments, envsByEnvID,
                    loc, ret, histVars, waitVars, otherVars >>

\* delete(r.envsByEnvID, env.GetCredentials().EnvironmentID); r.lock.Unlock()
RemoveEnvironmentDeleteEnvID(p) ==
    /\ pc[p] = "rm_del_id"
    /\ envsByEnvID' = [envsByEnvID EXCEPT ![envs[loc[p].env].EnvID] = Nil]
    /\ lock' = [lock EXCEPT !.writer = NoWriter]
    /\ pc' = [pc EXCEPT ![p] = "rm_unlocked"]
    /\ UNCHANGED << phase, envs, closeCalls, closed, metricsCloseCalls,
                    providerCloseCalls, cleanupLog, allEnvironments, envsByMobileKey,
                    loc, ret, histVars, waitVars, notLockVars >>

\* Close: r.lock.Lock(); if r.closed { r.lock.Unlock(); return }; r.closed = true
CloseLock(p) ==
    /\ phase = "running"
    /\ pc[p] = "idle"
    /\ CanLock
    /\ IF CloseReturnsEarly
       THEN /\ ret' = [op |-> "close", err |-> "nil",
                       val |-> "already closed", env |-> Nil]
            /\ UNCHANGED << closed, pc, closers, lock >>
       ELSE /\ closed' = TRUE
            /\ lock' = [lock EXCEPT !.writer = p]
            /\ pc' = [pc EXCEPT ![p] = "cl_all"]
            /\ closers' = closers + 1
            /\ UNCHANGED ret
    /\ UnchangedIndex
    /\ UNCHANGED << phase, envs, closeCalls, metricsCloseCalls, providerCloseCalls,
                    cleanupLog, loc, removed, waitVars, notLockVars >>

\* envs := r.allEnvironments; r.allEnvironments = nil
CloseNilAll(p) ==
    /\ pc[p] = "cl_all"
    /\ loc' = [loc EXCEPT ![p] =
                  [NoLoc EXCEPT !.envs = allEnvironments,
                                !.todo = { k \in SDKKeys : allEnvironments[k] # Nil }]]
    /\ allEnvironments' = NilIndex.all
    /\ pc' = [pc EXCEPT ![p] = "cl_mob"]
    /\ UNCHANGED << phase, envs, closeCalls, closed, metricsCloseCalls,
                    providerCloseCalls, cleanupLog, envsByMobileKey, envsByEnvID,
                    ret, histVars, waitVars, otherVars >>

\* r.envsByMobileKey = nil
CloseNilMobileKey(p) ==
    /\ pc[p] = "cl_mob"
    /\ envsByMobileKey' = NilIndex.mob
    /\ pc' = [pc EXCEPT ![p] = "cl_id"]
    /\ UNCHANGED << phase, envs, closeCalls, closed, metricsCloseCalls,
                    providerCloseCalls, cleanupLog, allEnvironments, envsByEnvID,
                    loc, ret, histVars, waitVars, otherVars >>

\* r.envsByEnvID = nil; r.lock.Unlock()
CloseNilEnvID(p) ==
    /\ pc[p] = "cl_id"
    /\ envsByEnvID' = NilIndex.id
    /\ lock' = [lock EXCEPT !.writer = NoWriter]
    /\ pc' = [pc EXCEPT ![p] = "cl_metrics"]
    /\ UNCHANGED << phase, envs, closeCalls, closed, metricsCloseCalls,
                    providerCloseCalls, cleanupLog, allEnvironments, envsByMobileKey,
                    loc, ret, histVars, waitVars, notLockVars >>

\* WaitForAllClients is entered: it takes no lock
WaitForAllClientsEnter(p) ==
    /\ phase = "running"
    /\ pc[p] = "idle"
    /\ pc' = [pc EXCEPT ![p] = "wait_len"]
    /\ UnchangedIndex
    /\ UNCHANGED << phase, envs, closeCalls, closed, metricsCloseCalls,
                    providerCloseCalls, cleanupLog, loc, ret, histVars, waitVars,
                    otherVars >>

\* numEnvironments := len(r.allEnvironments). The waiting that follows touches
\* no index map
WaitForAllClientsLen(p) ==
    /\ pc[p] = "wait_len"
    /\ ret' = [op |-> "len", err |-> "nil", val |-> "numEnvironments",
               env |-> NumEnvironments]
    /\ pc' = [pc EXCEPT ![p] = "idle"]
    /\ UnchangedIndex
    /\ UNCHANGED << phase, envs, closeCalls, closed, metricsCloseCalls,
                    providerCloseCalls, cleanupLog, loc, histVars, waitVars,
                    otherVars >>

NextLock ==
    \/ Construct
    \/ \E p \in Procs, credential \in RealCredentials : GetEnvironmentRLock(p, credential)
    \/ \E p \in Procs : GetEnvironmentRead(p)
    \/ \E p \in Procs : GetAllEnvironmentsRLock(p)
    \/ \E p \in Procs : GetAllEnvironmentsRead(p)
    \/ \E p \in Procs, envConfig \in EnvConfigs : AddEnvironmentLock(p, envConfig, "ok")
    \/ \E p \in Procs, outcome \in AddOutcomes \ {"ok"} :
           AddEnvironmentLock(p, AnyConfig, outcome)
    \/ \E p \in Procs : AddEnvironmentWriteAll(p)
    \/ \E p \in Procs : AddEnvironmentWriteMobileKey(p)
    \/ \E p \in Procs : AddEnvironmentWriteEnvID(p)
    \/ \E p \in Procs, sdkKey \in SDKKeys : RemoveEnvironmentLock(p, sdkKey)
    \/ \E p \in Procs : RemoveEnvironmentRead(p)
    \/ \E p \in Procs : RemoveEnvironmentDeleteAll(p)
    \/ \E p \in Procs : RemoveEnvironmentDeleteMobileKey(p)
    \/ \E p \in Procs : RemoveEnvironmentDeleteEnvID(p)
    \/ \E p \in Procs : RemoveEnvironmentUnlocked(p)
    \/ \E p \in Procs : CloseLock(p)
    \/ \E p \in Procs : CloseNilAll(p)
    \/ \E p \in Procs : CloseNilMobileKey(p)
    \/ \E p \in Procs : CloseNilEnvID(p)
    \/ \E p \in Procs : CloseMetrics(p)
    \/ \E p \in Procs, k \in SDKKeys : CloseEnvironment(p, k)
    \/ \E p \in Procs : CloseProviders(p)
    \/ \E p \in Procs : WaitForAllClientsEnter(p)
    \/ \E p \in Procs : WaitForAllClientsLen(p)

SpecLock == Init /\ [][NextLock]_vars

\* the pc labels at which a method reads one of the three index maps
MapReads == {"get_read", "getall_read", "rm_read", "cl_all", "wait_len"}

\* the pc labels at which a method writes one of the three index maps
MapWrites ==
    {"add_all", "add_mob", "add_id", "rm_del_all", "rm_del_mob", "rm_del_id",
     "cl_all", "cl_mob", "cl_id"}

\* an environment whose SDK key does not resolve while its mobile key or its
\* environment ID resolves to it
PartiallyIndexed(env) ==
    /\ allEnvironments[envs[env].SDKKey] = Nil
    /\ \/ envsByMobileKey[envs[env].MobileKey] = env
       \/ envsByEnvID[envs[env].EnvID] = env

\* C22: no GetEnvironment or GetAllEnvironments call reads the index maps in a
\* state in which some environment's SDK key does not resolve while its mobile
\* key or its environment ID resolves to it.
C22_LookupsSeeNoPartialIndex ==
    \A p \in Procs :
        pc[p] \in {"get_read", "getall_read"} =>
            \A env \in 1..Len(envs) : ~PartiallyIndexed(env)

\* C23: every method that is at a read of an index map holds RelayCore.lock (as
\* a reader or as the writer), every method that is at a write of an index map
\* holds it as the writer, and no method is at a map access while another one
\* is at a map write.
C23_MapAccessesHoldLock ==
    \A p \in Procs :
        /\ pc[p] \in MapReads => (p \in lock.readers \/ lock.writer = p)
        /\ pc[p] \in MapWrites =>
               /\ lock.writer = p
               /\ \A q \in Procs \ {p} : pc[q] \notin MapReads \cup MapWrites


(***************************************************************************)
(* The initialization wait of a RelayCore whose environments change: as    *)
(* SpecWait, with a second goroutine that adds and removes environments    *)
(* after NewRelayCore has returned.                                        *)
(***************************************************************************)
\* the goroutine that calls AddEnvironment and RemoveEnvironment
ReconfigureProcs == {"p2"}

\* the environment added later: one whose SDK key may or may not be in the index
AddedConfigs == { c \in WaitEnvConfigs : c.SDKKey = "k2" }

\* the calls wait without a timeout: WaitForAllClients(0)
NextReconfigure ==
    \/ ConstructAll
    \/ \E env \in 1..MaxEnvs, outcome \in InitOutcomes : EnvInitDone(env, outcome)
    \/ \E env \in 1..MaxEnvs : ForwarderReceive(env)
    \/ \E env \in 1..MaxEnvs : ForwarderSend(env)
    \/ \E p \in WaitProcs : WaitForAllClients(p, 0)
    \/ \E w \in 1..MaxWaits : WaiterReceive(w)
    \/ \E w \in 1..MaxWaits : WaiterSend(w)
    \/ \E p \in WaitProcs : WaitResult(p)
    \/ \E p \in ReconfigureProcs, envConfig \in AddedConfigs :
           AddEnvironment(p, envConfig, "ok")
    \/ \E p \in ReconfigureProcs, sdkKey \in SDKKeys : RemoveEnvironmentLocked(p, sdkKey)
    \/ \E p \in ReconfigureProcs : RemoveEnvironmentUnlocked(p)

SpecReconfigure == Init /\ [][NextReconfigure]_vars

\* the environments NewRelayCore added: those with a forwarding goroutine
InitialEnvs == { env \in 1..Len(envs) : fwd[env] # "none" }

\* C24: every WaitForAllClients call waits for as many reports as the initial
\* configuration has environments, whatever AddEnvironment and
\* RemoveEnvironment calls came before it, and a call that has returned
\* without timing out has received the report of every initial environment.
C24_WaitsForInitialEnvironments ==
    /\ \A w \in 1..Len(waiters) :
           waiters[w].numEnvironments = Cardinality(InitialEnvs)
    /\ (ret.op = "wait" /\ ret.err # "errInitializationTimeout") =>
           waiters[ret.env].got = InitialEnvs


(***************************************************************************)
(* The forwarding goroutines of NewRelayCore (SpecWait).                   *)
(***************************************************************************)
\* the number of receives from clientInitCh by the goroutines of waiters 1..w
RECURSIVE NumReceived(_)
NumReceived(w) == IF w = 0 THEN 0 ELSE waiters[w].numFinished + NumReceived(w - 1)

\* the environments whose forwarding goroutine has sent on clientInitCh
Forwarded == { env \in 1..Len(envs) : fwd[env] = "done" }

\* C25: every environment NewRelayCore added is forwarded to clientInitCh once
\* (each send puts one entry for its environment, so what is in the channel
\* and what was received from it is what the finished forwarders sent), a
\* forwarder that holds a report can always send it, the number of forwarders
\* is at most the channel's capacity, and a published report can always be
\* picked up by its forwarder.
C25_ForwardedOnceWithoutBlocking ==
    /\ Cardinality(InitialEnvs) <= clientInitCap
    /\ Len(clientInitCh) <= clientInitCap
    /\ Len(clientInitCh) + NumReceived(Len(waiters)) = Cardinality(Forwarded)
    /\ \A i, j \in 1..Len(clientInitCh) :
           /\ clientInitCh[i] \in Forwarded
           /\ i # j => clientInitCh[i] # clientInitCh[j]
    /\ \A env \in 1..Len(envs) :
           /\ fwd[env] = "send" => ENABLED ForwarderSend(env)
           /\ (fwd[env] = "recv" /\ resultCh[env] = 1) => ENABLED ForwarderReceive(env)
           /\ fwd[env] \in {"send", "done"} => initState[env] # "pending"

\* WaitForAllClients was never called, both environments of the configuration
\* have been forwarded and the channel is full
C25_Witness ==
    /\ waiters = << >>
    /\ Cardinality(Forwarded) = 2
    /\ Len(clientInitCh) = clientInitCap


(***************************************************************************)
(* The initialization wait with its goroutines scheduled: a goroutine that *)
(* can take its next step takes it, and a select with a ready case returns.*)
(* Whether an environment ever reports is left open.                       *)
(***************************************************************************)
SpecWaitFair ==
    /\ SpecWait
    /\ \A env \in 1..MaxEnvs :
           WF_vars(ForwarderReceive(env)) /\ WF_vars(ForwarderSend(env))
    /\ \A w \in 1..MaxWaits : WF_vars(WaiterReceive(w)) /\ WF_vars(WaiterSend(w))
    /\ \A p \in WaitProcs : WF_vars(WaitResult(p)) /\ WF_vars(WaitTimeout(p))

\* a call made before call w returned errInitializationTimeout: the callers
\* call one after the other, and a call that returned through its result
\* channel has taken the result
EarlierTimedOut(w) == \E v \in 1..(w - 1) : waiters[v].resultCh # "taken"

\* every environment NewRelayCore added has reported
AllReported == \A env \in InitialEnvs : initState[env] # "pending"

\* C26: a WaitForAllClients call without a timeout, made after an earlier call
\* returned errInitializationTimeout, returns nil or errSomeEnvironmentFailed
\* once every initial environment has reported.
C26_LaterWaitCompletes ==
    \A p \in WaitProcs :
        (/\ pc[p] = "wait_select"
         /\ loc[p].timeout = 0
         /\ EarlierTimedOut(loc[p].w)
         /\ AllReported)
            ~> (/\ pc[p] = "idle"
                /\ ret.op = "wait"
                /\ ret.err \in {"nil", "errSomeEnvironmentFailed"})


(***************************************************************************)
(* Properties of the dispatcher's relays and of its worker (SpecEvents).   *)
(***************************************************************************)
\* the relay field a request's worker asks for
RelayFor(r) ==
    IF IsSummaryVersion(requests[r].payloadVersion) THEN verbatimRelay
    ELSE summarizingRelay

\* C27: whatever the interleaving of the workers of one endpoint, at most one
\* verbatim relay and at most one summarizing relay are constructed, none
\* before a worker asks for it, and every worker is given the instance that
\* the endpoint's field holds.
C27_OneRelayPerEndpoint ==
    /\ relaysBuilt.verbatim = (IF verbatimRelay = Nil THEN 0 ELSE 1)
    /\ relaysBuilt.summarizing = (IF summarizingRelay = Nil THEN 0 ELSE 1)
    /\ verbatimRelay # Nil =>
           \E r \in Requests :
               requests[r].relay # Nil /\ IsSummaryVersion(requests[r].payloadVersion)
    /\ summarizingRelay # Nil =>
           \E r \in Requests :
               requests[r].relay # Nil /\ ~ IsSummaryVersion(requests[r].payloadVersion)
    /\ \A r \in Requests :
           /\ requests[r].relay # Nil => requests[r].relay = RelayFor(r)
           /\ requests[r].worker \in {"enqueueVerbatim", "enqueueSummarizing"} =>
                  requests[r].relay # Nil

\* two workers have asked for the verbatim relay: the first found the field nil
\* and constructed it, the second found it set, and both hold that instance
C27_Witness ==
    \E r, q \in Requests :
        /\ r # q
        /\ requests[r].relay = verbatimRelay /\ requests[q].relay = verbatimRelay
        /\ verbatimRelay # Nil /\ relaysBuilt.verbatim = 1
        /\ requests[r].build /\ ~ requests[q].build


\* C28: every batch handed to the summarizing relay carries payload version 1
\* or 2, whatever the schema header of its request was.
C28_SummarizingVersionIsOneOrTwo ==
    \A i \in 1..Len(summarizingIn) : summarizingIn[i].payloadVersion \in {1, 2}


\* C29: a batch that has been through the verbatim relay's enqueue was
\* published whole, once, or not at all; not at all when SendEvents is false;
\* with SendEvents true and a positive SamplingInterval N the relay drew from
\* 0..N-1 and published exactly when the draw was 0; with SendEvents true and
\* N <= 0 it drew nothing and published. (A PublishRaw call or a racing draw
\* that panics publishes nothing; that worker ends as recovered.)
C29_VerbatimPublishesWholeOrNothing ==
    \A r \in Requests :
        (VerbatimCalls(r) # {} /\ requests[r].worker \in {"done", "recovered"}) =>
            LET pub == PublishCalls(r) # {}
                n == evConfig.SamplingInterval
                returned == requests[r].worker = "done"
            IN  /\ Cardinality(PublishCalls(r)) <= 1
                /\ \A i \in PublishCalls(r) : published[i].records = requests[r].evts
                /\ ~ evConfig.SendEvents => (~ pub /\ requests[r].draw = NoDraw)
                /\ (evConfig.SendEvents /\ n > 0) =>
                       /\ returned => requests[r].draw \in Int31n(n)
                       /\ pub => requests[r].draw = 0
                       /\ (returned /\ requests[r].draw = 0) => pub
                /\ (evConfig.SendEvents /\ n <= 0) =>
                       /\ requests[r].draw = NoDraw
                       /\ returned => pub

\* under a sampling interval of 2 one batch was dropped on a draw of 1 and
\* another, of two records, was published whole on a draw of 0
C29_Witness ==
    \E r, q \in Requests :
        /\ evConfig.SendEvents /\ evConfig.SamplingInterval = 2
        /\ requests[r].worker = "done" /\ requests[r].draw = 1 /\ PublishCalls(r) = {}
        /\ requests[q].worker = "done" /\ requests[q].draw = 0
        /\ \E i \in PublishCalls(q) : Len(published[i].records) = 2


\* C30: a worker whose panic was recovered has logged it and has ended; its
\* request keeps status 202; it does not hold the endpoint's mutex, which is
\* held only by a worker inside a getter; and any other worker that is about
\* to ask for a relay can take the mutex as soon as no worker is inside a
\* getter, so later batches are processed.
C30_PanicIsContained ==
    /\ \A r \in Requests :
           /\ requests[r].worker = "recovered" =>
                  /\ requests[r].status = 202
                  /\ requests[r].log = << "unexpected panic in event relay" >>
                  /\ mu # r
           /\ mu = r => requests[r].worker = "getRelay"
    /\ mu # NoHolder => mu \in Requests
    /\ \A r, q \in Requests :
           (/\ requests[r].worker = "recovered"
            /\ requests[q].worker = "route"
            /\ \A x \in Requests : requests[x].worker # "getRelay") =>
               ENABLED WorkerLock(q)

\* the first batch handed to the verbatim relay ended in a recovered panic;
\* the batch of another request went through the getter and the relay after
\* it and was published
C30_Witness ==
    \E r, q \in Requests :
        /\ r # q
        /\ requests[r].worker = "recovered" /\ requests[r].status = 202
        /\ Len(verbatimIn) = 2 /\ verbatimIn[1].req = r /\ verbatimIn[2].req = q
        /\ requests[q].worker = "done" /\ PublishCalls(q) # {}
        /\ mu = NoHolder


\* C31: at most one dispatch worker is inside a draw on rGen at any time.
C31_DrawsAreMutuallyExclusive == Cardinality(Drawing) <= 1

====
